---- MODULE Spec2Model ----
(***************************************************************************)
(* Model of the water-report ingestion pipeline.                           *)
(*                                                                         *)
(*   Spec     process_reports (data_processing/report_processor.py): the   *)
(*            directory walk, header-field extraction, row assembly and    *)
(*            the two sqlite tables reports / systems.                     *)
(*   SpecPdf  extract_data_from_pdf (data_processing/pdf/pdf_process.py):  *)
(*            the table locator and the row/field assembler, page by page. *)
(*   SpecPure one call of the column normalizer (mssql_exporter.py) or of  *)
(*            to_float (report_processor.py).                              *)
(*   SpecExport  mssql_exporter.py up to the closing of combined.db, run   *)
(*            after run over a growing directory of JSON files.            *)
(*   SpecParse  one call of a fallback table builder of pdf_process.py:   *)
(*            parse_table_from_text and parse_vertical_table_from_text,    *)
(*            loop test by loop test, or get_table_from_page.              *)
(*                                                                         *)
(* Python str values are TLA+ strings, handled character by character with *)
(* Len, SubSeq and \o.  Python's None is the reserved value None below.    *)
(***************************************************************************)
EXTENDS Integers, Sequences, FiniteSets, TLC

(***************************************************************************)
(* Bounds of the model.                                                    *)
(***************************************************************************)
MaxFiles == 2
MaxRuns == 2
MaxPages == 2
MaxCellLen == 3
MaxJson == 2
MaxExports == 2

(***************************************************************************)
(* Python values.                                                          *)
(***************************************************************************)
None == "<None>"

Truthy(v) == v # None /\ v # ""

\* Python's  a or b  on str / None operands
Or(a, b) == IF Truthy(a) THEN a ELSE b

(***************************************************************************)
(* str primitives.                                                         *)
(***************************************************************************)
Char(s, i) == SubSeq(s, i, i)

Upper26 == "ABCDEFGHIJKLMNOPQRSTUVWXYZ"

Lower26 == "abcdefghijklmnopqrstuvwxyz"

Digits == {"0", "1", "2", "3", "4", "5", "6", "7", "8", "9"}

IsSpace(c) == c \in {" ", "\t", "\n", "\r"}

IsDigit(c) == c \in Digits

LowerChar(c) ==
    IF \E i \in 1..26 : Char(Upper26, i) = c
    THEN Char(Lower26, CHOOSE i \in 1..26 : Char(Upper26, i) = c)
    ELSE IF c = "Â" THEN "â" ELSE c

RECURSIVE lower(_)
lower(s) == IF s = "" THEN "" ELSE LowerChar(Char(s, 1)) \o lower(Tail(s))

RECURSIVE lstrip(_)
lstrip(s) == IF s # "" /\ IsSpace(Char(s, 1)) THEN lstrip(Tail(s)) ELSE s

RECURSIVE rstrip(_)
rstrip(s) ==
    IF s # "" /\ IsSpace(Char(s, Len(s)))
    THEN rstrip(SubSeq(s, 1, Len(s) - 1))
    ELSE s

strip(s) == rstrip(lstrip(s))

startswith(s, p) == Len(s) >= Len(p) /\ SubSeq(s, 1, Len(p)) = p

endswith(s, p) ==
    Len(s) >= Len(p) /\ SubSeq(s, Len(s) - Len(p) + 1, Len(s)) = p

\* first index >= from at which p occurs in s, 0 when there is none
find(s, p, from) ==
    LET hits == {i \in from..(Len(s) - Len(p) + 1) : SubSeq(s, i, i + Len(p) - 1) = p}
    IN  IF hits = {} THEN 0 ELSE CHOOSE i \in hits : \A j \in hits : i <= j

\* Python's  p in s
contains(s, p) == find(s, p, 1) # 0

\* s.replace(old, new), old not empty
RECURSIVE replace(_, _, _)
replace(s, old, new) ==
    IF s = "" THEN ""
    ELSE IF startswith(s, old) THEN new \o replace(SubSeq(s, Len(old) + 1, Len(s)), old, new)
    ELSE Char(s, 1) \o replace(Tail(s), old, new)

\* ''.join(parts)
RECURSIVE join(_)
join(parts) == IF parts = <<>> THEN "" ELSE Head(parts) \o join(Tail(parts))

\* re.sub(r'\s+', '_', s)
RECURSIVE subSpaces(_)
subSpaces(s) ==
    IF s = "" THEN ""
    ELSE IF IsSpace(Char(s, 1)) THEN "_" \o subSpaces(lstrip(s))
    ELSE Char(s, 1) \o subSpaces(Tail(s))

\* s.split(sep)[0] for a one-character sep
RECURSIVE firstPart(_, _)
firstPart(s, sep) ==
    IF s = "" \/ Char(s, 1) = sep THEN ""
    ELSE Char(s, 1) \o firstPart(Tail(s), sep)

(***************************************************************************)
(* Numbers.  A Python float is <<m, e>>, standing for m / 10^e with the    *)
(* trailing zeros of the fraction removed, so that 850 and 850.0 are the   *)
(* same value <<850, 0>>; a missing number (None) is <<>>.                 *)
(***************************************************************************)
NoFloat == <<>>

DigitVal(c) == (CHOOSE i \in 1..10 : Char("0123456789", i) = c) - 1

AllDigits(s) == \A i \in 1..Len(s) : IsDigit(Char(s, i))

RECURSIVE atoi(_)
atoi(s) == IF s = "" THEN 0 ELSE 10 * atoi(SubSeq(s, 1, Len(s) - 1)) + DigitVal(Char(s, Len(s)))

RECURSIVE dropTrailingZeros(_)
dropTrailingZeros(s) ==
    IF s # "" /\ Char(s, Len(s)) = "0"
    THEN dropTrailingZeros(SubSeq(s, 1, Len(s) - 1))
    ELSE s

\* float(s) for s over the characters 0-9 . - ; NoFloat stands for ValueError
float(s) ==
    LET neg  == startswith(s, "-")
        body == IF neg THEN Tail(s) ELSE s
        dot  == find(body, ".", 1)
        ip   == IF dot = 0 THEN body ELSE SubSeq(body, 1, dot - 1)
        fp   == IF dot = 0 THEN "" ELSE SubSeq(body, dot + 1, Len(body))
        frac == dropTrailingZeros(fp)
        m    == atoi(ip \o frac)
    IN  IF AllDigits(ip) /\ AllDigits(fp) /\ Len(ip) + Len(fp) > 0
        THEN <<IF neg THEN 0 - m ELSE m, Len(frac)>>
        ELSE NoFloat

\* re.sub(r'[^\d.]', '', val): the sign is stripped as well
RECURSIVE keepDigitsAndDots(_)
keepDigitsAndDots(s) ==
    IF s = "" THEN ""
    ELSE IF IsDigit(Char(s, 1)) \/ Char(s, 1) = "."
    THEN Char(s, 1) \o keepDigitsAndDots(Tail(s))
    ELSE keepDigitsAndDots(Tail(s))

\* re.sub(r'[^\d.-]', '', val)
RECURSIVE keepNumeric(_)
keepNumeric(s) ==
    IF s = "" THEN ""
    ELSE IF IsDigit(Char(s, 1)) \/ Char(s, 1) \in {".", "-"}
    THEN Char(s, 1) \o keepNumeric(Tail(s))
    ELSE keepNumeric(Tail(s))

to_float(val) ==
    IF val = None \/ val = "" THEN NoFloat
    ELSE LET cleaned_val == keepNumeric(val)
         IN  IF cleaned_val # "" THEN float(cleaned_val) ELSE NoFloat

(***************************************************************************)
(* parse_date: datetime.strptime with the four formats, then isoformat().  *)
(***************************************************************************)
\* s.split(sep) for a one-character sep
RECURSIVE split(_, _)
split(s, sep) ==
    LET k == find(s, sep, 1)
    IN  IF k = 0 THEN <<s>>
        ELSE <<SubSeq(s, 1, k - 1)>> \o split(SubSeq(s, k + 1, Len(s)), sep)

IsLeap(y) == (y % 4 = 0 /\ y % 100 # 0) \/ y % 400 = 0

DaysIn(m, y) ==
    IF m = 2 THEN (IF IsLeap(y) THEN 29 ELSE 28)
    ELSE IF m \in {4, 6, 9, 11} THEN 30 ELSE 31

Pad2(s) == IF Len(s) = 1 THEN "0" \o s ELSE s

\* one strptime attempt: separator sep, %Y (ylen = 4) or %y (ylen = 2)
strptime(date_str, sep, ylen) ==
    LET p == split(date_str, sep)
        okShape == /\ Len(p) = 3
                   /\ \A i \in 1..3 : p[i] # "" /\ AllDigits(p[i])
                   /\ Len(p[1]) <= 2 /\ Len(p[2]) <= 2 /\ Len(p[3]) = ylen
        yyyy == IF ylen = 4 THEN p[3]
                ELSE IF atoi(p[3]) < 69 THEN "20" \o p[3] ELSE "19" \o p[3]
    IN  IF okShape
           /\ atoi(p[1]) \in 1..12
           /\ atoi(yyyy) >= 1
           /\ atoi(p[2]) \in 1..DaysIn(atoi(p[1]), atoi(yyyy))
        THEN yyyy \o "-" \o Pad2(p[1]) \o "-" \o Pad2(p[2])
        ELSE None

\* date.isoformat() if date else None
parse_date(date_str) ==
    LET a == strptime(date_str, "/", 4)
        b == strptime(date_str, "-", 4)
        c == strptime(date_str, "/", 2)
        d == strptime(date_str, "-", 2)
    IN  IF a # None THEN a ELSE IF b # None THEN b ELSE IF c # None THEN c ELSE d

(***************************************************************************)
(* Header fields of process_reports: the regular-expression searches over  *)
(* full_text.  Each operator gives the stripped group of the first match,  *)
(* or None when the pattern matches nowhere.                               *)
(***************************************************************************)
\* first index >= q holding a non-whitespace character, Len(s) + 1 if none
skipSpaces(s, q) ==
    LET rest == {i \in q..Len(s) : ~IsSpace(Char(s, i))}
    IN  IF rest = {} THEN Len(s) + 1 ELSE CHOOSE i \in rest : \A j \in rest : i <= j

\* (.+?)(?:\n|$) started at q: the characters from q up to the end of the line
restOfLine(s, q) ==
    LET nl == find(s, "\n", q)
    IN  IF nl = 0 THEN SubSeq(s, q, Len(s)) ELSE SubSeq(s, q, nl - 1)

NoNewline(s, a, b) == \A i \in a..b : Char(s, i) # "\n"

\* r'Facility:\s*(.+?)(?:\n|$)', re.I
searchFacility(text) ==
    LET p == find(lower(text), "facility:", 1)
        r == p + 9
        q == skipSpaces(text, r)
    IN  IF p = 0 THEN None
        ELSE IF q <= Len(text) THEN strip(restOfLine(text, q))
        \* only whitespace follows the label: the group is one of its characters
        ELSE IF \E i \in r..Len(text) : Char(text, i) # "\n" THEN ""
        ELSE None

\* r'SITE VISITATION REPORT\s*\n\s*(.+?)(?:\n|$)', re.I, from index from on
RECURSIVE searchSite(_, _)
searchSite(text, from) ==
    LET p == find(lower(text), "site visitation report", from)
        r == p + 22
        q == skipSpaces(text, r)
    IN  IF p = 0 THEN None
        ELSE IF q <= Len(text) /\ ~NoNewline(text, r, q - 1) THEN strip(restOfLine(text, q))
        ELSE IF q > Len(text)
                /\ \E i \in r..Len(text) : \E j \in (i + 1)..Len(text) :
                       Char(text, i) = "\n" /\ Char(text, j) # "\n"
        THEN ""
        ELSE searchSite(text, p + 1)

\* lines 168-180
facilityOf(text) ==
    LET a == searchFacility(text)
        b == searchSite(text, 1)
    IN  IF a # None THEN a ELSE IF b # None THEN b ELSE ""

IsDateChar(c) == IsDigit(c) \/ c \in {"/", "-"}

\* the longest run of [\d/-] starting at q
RECURSIVE dateRun(_, _)
dateRun(s, q) ==
    IF q <= Len(s) /\ IsDateChar(Char(s, q)) THEN Char(s, q) \o dateRun(s, q + 1) ELSE ""

\* r'Date:\s*([\d/-]+)', re.I, from index from on
RECURSIVE searchDate(_, _)
searchDate(text, from) ==
    LET p == find(lower(text), "date:", from)
        q == skipSpaces(text, p + 5)
    IN  IF p = 0 THEN None
        ELSE IF dateRun(text, q) # "" THEN strip(dateRun(text, q))
        ELSE searchDate(text, p + 1)

\* lines 182-189: date_value
dateValueOf(text) ==
    LET m == searchDate(text, 1)
    IN  parse_date(IF m # None THEN m ELSE "")

\* ,\s*.+<suffix> with the comma at c: some characters of one line, then suffix
TailAfterComma(text, c, suffix) ==
    \E t \in (c + 1)..skipSpaces(text, c + 1) : \E u \in (t + 1)..Len(text) :
        /\ startswith(SubSeq(lower(text), u, Len(text)), suffix)
        /\ NoNewline(text, t, u - 1)

\* (.+?), started at q: the group ends before the first comma c of the line
\* after which the rest of the pattern matches (c in oks); 0 when there is none
firstComma(text, q, oks) ==
    LET cs == {c \in (q + 1)..Len(text) :
                   Char(text, c) = "," /\ NoNewline(text, q, c - 1) /\ c \in oks}
    IN  IF cs = {} THEN 0 ELSE CHOOSE c \in cs : \A d \in cs : c <= d

\* r'IWT Field Representative:\s*(.+?),\s*.+@illinois\.edu', re.I
RECURSIVE searchRepresentative(_, _)
searchRepresentative(text, from) ==
    LET p == find(lower(text), "iwt field representative:", from)
        q == skipSpaces(text, p + 25)
        c == firstComma(text, q, {k \in 1..Len(text) :
                                      Char(text, k) = "," /\ TailAfterComma(text, k, "@illinois.edu")})
    IN  IF p = 0 THEN None
        ELSE IF q <= Len(text) /\ c # 0 THEN strip(SubSeq(text, q, c - 1))
        ELSE searchRepresentative(text, p + 1)

\* r'Signature\s*\n\s*(.+?),\s*BS Ch\.E\., Senior Chemist', re.I
RECURSIVE searchSignature(_, _)
searchSignature(text, from) ==
    LET p == find(lower(text), "signature", from)
        r == p + 9
        q == skipSpaces(text, r)
        c == firstComma(text, q,
                        {k \in 1..Len(text) :
                             Char(text, k) = "," /\
                             startswith(SubSeq(lower(text), skipSpaces(text, k + 1), Len(text)),
                                        "bs ch.e., senior chemist")})
    IN  IF p = 0 THEN None
        ELSE IF q <= Len(text) /\ ~NoNewline(text, r, q - 1) /\ c # 0
        THEN strip(SubSeq(text, q, c - 1))
        ELSE searchSignature(text, p + 1)

IsLetter(c) == \E i \in 1..26 : Char(Lower26, i) = LowerChar(c)

\* the longest run of letters starting at q
RECURSIVE letters(_, _)
letters(s, q) ==
    IF q <= Len(s) /\ IsLetter(Char(s, q)) THEN Char(s, q) \o letters(s, q + 1) ELSE ""

\* r'x([A-Z][a-z]+ [A-Z][a-z]+)\n\1, Field Chemist', re.I
RECURSIVE searchFieldChemist(_, _)
searchFieldChemist(text, from) ==
    LET p  == find(lower(text), "x", from)
        w1 == letters(text, p + 1)
        s2 == p + 1 + Len(w1)
        w2 == letters(text, s2 + 1)
        e  == s2 + 1 + Len(w2)
        g  == w1 \o " " \o w2
    IN  IF p = 0 THEN None
        ELSE IF /\ Len(w1) >= 2 /\ Char(text, s2) = " " /\ Len(w2) >= 2
                /\ Char(text, e) = "\n"
                /\ startswith(SubSeq(lower(text), e + 1, Len(text)),
                              lower(g) \o ", field chemist")
        THEN strip(g)
        ELSE searchFieldChemist(text, p + 1)

\* lines 192-209
chemistOf(text) ==
    LET a == searchRepresentative(text, 1)
        b == searchSignature(text, 1)
        c == searchFieldChemist(text, 1)
    IN  IF a # None THEN a ELSE IF b # None THEN b ELSE IF c # None THEN c ELSE ""

(***************************************************************************)
(* Row assembly of process_reports (lines 231-324).  A table is a sequence *)
(* of rows and a row a sequence of str cells: lines 140 and 155 have       *)
(* already turned every None cell into ''.                                 *)
(***************************************************************************)
RelevantKeys == {"Cond.", "pH", "P Alk", "P Alkalinity", "System Type", "Conductivity", "uS/cm"}

\* lines 236-238
relevantHeaders(header_row) ==
    LET header_str == replace(replace(lower(join(header_row)), "âµ", "µ"), "â°", "°")
    IN  \E key \in RelevantKeys : contains(header_str, lower(key))

\* line 243, one header cell
normalizeHeader(h) ==
    strip(lower(subSpaces(
        replace(replace(replace(replace(h, ".", ""), "\n", ""), "Âµ", "µ"), "Â°", "°"))))

\* line 243: the empty header cells are left out
RECURSIVE headersOf(_)
headersOf(header_row) ==
    IF header_row = <<>> THEN <<>>
    ELSE IF strip(Head(header_row)) # ""
    THEN <<normalizeHeader(Head(header_row))>> \o headersOf(Tail(header_row))
    ELSE headersOf(Tail(header_row))

\* line 247
anyCell(row) == \E i \in 1..Len(row) : row[i] # ""

\* lines 250-252: the dict d, as a function on its keys; zip stops at the
\* shorter list and a repeated key keeps its last value
rowDict(headers, row) ==
    LET padded == [i \in 1..(IF Len(headers) > Len(row) THEN Len(headers) ELSE Len(row)) |->
                       IF i <= Len(row) THEN row[i] ELSE ""]
        n      == Len(headers)
        last(k) == CHOOSE i \in 1..n : headers[i] = k /\ \A j \in 1..n : headers[j] = k => j <= i
    IN  [k \in {headers[i] : i \in 1..n} |->
            IF padded[last(k)] # "" THEN strip(padded[last(k)]) ELSE None]

\* d.get(key, default)
get(d, key, default) == IF key \in DOMAIN d THEN d[key] ELSE default

\* position of key in the iteration order of d (order of first insertion)
keyPos(headers, k) == CHOOSE i \in 1..Len(headers) : headers[i] = k /\ \A j \in 1..(i - 1) : headers[j] # k

\* line 261
glycolLike(val) ==
    contains(lower(val), "glycol") \/ (contains(val, "%") /\ contains(lower(val), "f"))

\* lines 263-274
NumericKeys ==
    {"p_alkalinity_caco3_(mg/l)", "p_alkalinity", "m_alkalinity_caco3_(mg/l)", "m_alkalinity",
     "hardness_caco3_(mg/l)", "hardness", "hardnes_s", "ca_(mg/l)", "ca_caco3_(mg/l)", "ca",
     "calcium", "cond_(µs/cm)", "cond", "ph", "temp_(°c)", "temp", "cl_(mg/l)", "cl",
     "chloride", "po4_(mg/l)", "po4", "no2_(mg/l)", "no2"}

\* the keys of d whose value lines 259-262 take for a glycol reading
glycolKeys(d) == {k \in DOMAIN d : Truthy(d[k]) /\ glycolLike(d[k])}

\* the keys of d that reach the to_float call of lines 276-281
atpKeys(d) == {k \in DOMAIN d : Truthy(d[k]) /\ contains(lower(k), "atp")}

\* the key of ks that the loop of line 258 visits last
lastKey(headers, ks) == CHOOSE k \in ks : \A j \in ks : keyPos(headers, j) <= keyPos(headers, k)

\* lines 256-262: glycol after the loop
loopGlycol(headers, d) ==
    IF glycolKeys(d) = {} THEN None ELSE d[lastKey(headers, glycolKeys(d))]

\* lines 263-275: d after the loop
clearedDict(d) ==
    [k \in DOMAIN d |-> IF k \in glycolKeys(d) /\ k \in NumericKeys THEN None ELSE d[k]]

\* lines 277-281, for one value
atpValue(val) ==
    IF contains(val, "|") THEN to_float(strip(split(val, "|")[1])) ELSE to_float(val)

\* lines 257, 276-281: live_atp after the loop
loopLiveAtp(headers, d) ==
    IF atpKeys(d) = {} THEN NoFloat ELSE atpValue(d[lastKey(headers, atpKeys(d))])

\* line 284, on the dict left by the loop
rawSystemName(d) ==
    Or(Or(Or(get(d, "system_name", ""), get(d, "gwt_names", "")),
          get(d, "water_samples", "")), get(d, "", ""))

\* lines 285-286; None when line 286 adds None to a str (TypeError)
systemNameOf(d) ==
    LET system_type == Or(get(d, "system_type", ""), "")
    IN  IF rawSystemName(d) = None THEN None
        ELSE strip(system_type \o " " \o rawSystemName(d))

\* to_float(d.get(k1) or d.get(k2) or ...), keys in the order of the source
RECURSIVE firstOf(_, _)
firstOf(d, keys) ==
    IF Len(keys) = 1 THEN get(d, keys[1], None)
    ELSE Or(get(d, keys[1], None), firstOf(d, Tail(keys)))

\* lines 314-320
liveAtpOf(headers, d) ==
    LET live_val == firstOf(clearedDict(d), <<"live_atp", "atp_live_|_dead">>)
    IN  IF loopLiveAtp(headers, d) # NoFloat THEN loopLiveAtp(headers, d)
        ELSE IF Truthy(live_val) THEN atpValue(live_val)
        ELSE NoFloat

\* lines 302-324 and 338-339: the values bound for the INSERT, comment apart
systemValues(rid, headers, d) ==
    LET c == clearedDict(d)
    IN  [report_id      |-> rid,
         system_name    |-> systemNameOf(c),
         cond           |-> to_float(firstOf(c, <<"cond", "cond_(µs/cm)">>)),
         ph             |-> to_float(firstOf(c, <<"ph">>)),
         temp           |-> to_float(firstOf(c, <<"temp", "temp_(°c)">>)),
         p_alk          |-> to_float(firstOf(c, <<"p_alk", "p_alkalinity_caco3_(mg/l)",
                                                  "p_alkalinity", "p_alkalinity_caco3_(mg/l)">>)),
         m_alk          |-> to_float(firstOf(c, <<"m_alk", "m_alkalinity_caco3_(mg/l)",
                                                  "m_alkalinity", "m_alkalinity_caco3_(mg/l)">>)),
         chloride       |-> to_float(firstOf(c, <<"chloride", "cl_(mg/l)", "cl">>)),
         hardness       |-> to_float(firstOf(c, <<"hardness", "hardnes_s", "hardness_caco3_(mg/l)">>)),
         calcium        |-> to_float(firstOf(c, <<"calcium", "ca_(mg/l)", "ca_caco3_(mg/l)", "ca">>)),
         po4            |-> to_float(firstOf(c, <<"po4", "po4_(mg/l)">>)),
         so3            |-> to_float(firstOf(c, <<"so2", "so3">>)),
         mo             |-> to_float(firstOf(c, <<"mo">>)),
         no2            |-> to_float(firstOf(c, <<"no2", "no2_(mg/l)">>)),
         live_atp       |-> liveAtpOf(headers, d),
         glycol         |-> Or(loopGlycol(headers, d), get(c, "glycol", None)),
         free_chlorine  |-> to_float(firstOf(c, <<"free_chlorine", "free_chlorine_ppm">>)),
         total_chlorine |-> to_float(firstOf(c, <<"total_chlorine", "total_chlorine_ppm">>)),
         max_temp       |-> to_float(firstOf(c, <<"max_temp">>))]

(***************************************************************************)
(* The reports directory.  A file is what os.listdir, os.path.getsize and  *)
(* the extraction library (python-docx, pdfplumber) give for it: its name, *)
(* its size, whether the library opens it, its text and its tables.        *)
(***************************************************************************)
ExampleHeader == <<"#", "System Type", "System Name", "Cond.", "pH">>

ExampleRow == <<"1", "Dist", "Cold Loop", "850", "8.1">>

ExampleText == "Facility: Example Park\nDate: 5/1/2024"

DocExample ==
    [ext |-> ".docx", size |-> 1, readable |-> TRUE, text |-> ExampleText,
     tables |-> << <<ExampleHeader, ExampleRow>> >>]

DocAtp ==
    [ext |-> ".pdf", size |-> 1, readable |-> TRUE,
     text |-> "SITE VISITATION REPORT\nGiant City\nDate: 3-4-24",
     tables |-> << << <<"System Name", "pH", "Live ATP">>,
                      <<"Tower 1", "7.5", "85 | 12">>,
                      <<"Tower 2", "7.1", "">> >> >>]

DocLoops ==
    [ext |-> ".PDF", size |-> 1, readable |-> TRUE,
     text |-> "Facility: West Plant\nIWT Field Representative: Jo Doe, jd@illinois.edu",
     tables |-> << << <<"Item", "Qty">>, <<"Salt", "2">> >>,
                   << <<"GWT Names", "Cond.", "pH">>,
                      <<"Loop A", "900", "30% F glycol">>,
                      <<"", "", "">>,
                      <<"Loop A", "910", "7.0">>,
                      <<"Loop B", "OK", "7.2 ">> >> >>]

DocLateAtp ==
    [ext |-> ".docx", size |-> 1, readable |-> TRUE, text |-> "Date: 13/1/2024\nsigned",
     tables |-> << << <<"System Type", "System Name", "ATP Live | Dead">>,
                      <<"Dist", "Main", "">>,
                      <<"Dist", "Annex", "40|3">> >> >>]

DocDotHeader ==
    [ext |-> ".docx", size |-> 1, readable |-> TRUE, text |-> "Facility: Dot",
     tables |-> << << <<".", "pH">>, <<"", "7">> >> >>]

DocCorrupt == [ext |-> ".docx", size |-> 1, readable |-> FALSE, text |-> "", tables |-> <<>>]

DocZeroBytes == [ext |-> ".pdf", size |-> 0, readable |-> FALSE, text |-> "", tables |-> <<>>]

DocBlank ==
    [ext |-> ".pdf", size |-> 1, readable |-> TRUE, text |-> " \n",
     tables |-> << <<ExampleHeader, ExampleRow>> >>]

DocNotes == [ext |-> ".txt", size |-> 1, readable |-> TRUE, text |-> "Facility: X", tables |-> <<>>]

\* a table whose first column, the one of the system names, has no label
DocUnlabeled ==
    [ext |-> ".docx", size |-> 1, readable |-> TRUE, text |-> "Facility: East Plant",
     tables |-> << << <<"", "Cond.", "pH">>, <<"Tower 1", "850", "8.1">> >> >>]

Templates ==
    {DocExample, DocAtp, DocLoops, DocLateAtp, DocDotHeader, DocCorrupt, DocZeroBytes,
     DocBlank, DocNotes, DocUnlabeled}

\* the i-th directory entry: a template under a name of its own
FileOf(i, t) == [name |-> "report" \o Char("123456789", i) \o t.ext] @@ t

Directories ==
    UNION {{[i \in 1..n |-> FileOf(i, ts[i])] : ts \in [1..n -> Templates]} : n \in 1..MaxFiles}

\* line 118 without its filter
listAllFiles(d) == d

\* line 118
listFiles(d) ==
    SelectSeq(d, LAMBDA f : endswith(lower(f.name), ".docx") \/ endswith(lower(f.name), ".pdf"))

\* lines 133-160: full_text and tables of a file the library opens; python-docx
\* cells are stripped (line 140), pdfplumber cells are kept as they are (155)
tablesOf(f) ==
    IF endswith(lower(f.name), ".docx")
    THEN [t \in 1..Len(f.tables) |->
             [r \in 1..Len(f.tables[t]) |->
                 [c \in 1..Len(f.tables[t][r]) |-> strip(f.tables[t][r][c])]]]
    ELSE f.tables

\* lines 231-246: the data rows the loops reach, each with the headers of its table
RECURSIVE workRows(_)
workRows(tables) ==
    IF tables = <<>> THEN <<>>
    ELSE LET table == Head(tables)
         IN  (IF Len(table) < 2 \/ ~relevantHeaders(table[1]) THEN <<>>
              ELSE [i \in 1..(Len(table) - 1) |->
                       [headers |-> headersOf(table[1]), row |-> table[i + 1]]])
             \o workRows(Tail(tables))

(***************************************************************************)
(* The sqlite database: reports and systems hold the committed rows in     *)
(* insertion order; AUTOINCREMENT gives row i the id i.                    *)
(***************************************************************************)
\* the rows of reports with this filename: the lookup both of the SELECT of
\* line 212 and of the UNIQUE index on filename (line 58)
RowsWithFilenameNone(tbl, filename) == {i \in 1..Len(tbl) : tbl[i].filename = "reports/" \o filename}

RowsWithFilename(tbl, filename) == {i \in 1..Len(tbl) : tbl[i].filename = filename}

\* the rows of systems with this key: the SELECT of line 327 and the index of
\* UNIQUE(report_id, system_name) (line 94)
RowsWithSystem(tbl, rid, system_name) ==
    {i \in 1..Len(tbl) : tbl[i].report_id = rid /\ tbl[i].system_name = system_name}

\* lines 219-224: INSERT INTO reports and commit; the table is left as it is
\* when the UNIQUE constraint rejects the row (IntegrityError, line 226)
insertReport(tbl, filename, facility, date_value, chemist) ==
    IF RowsWithFilename(tbl, filename) # {} THEN tbl
    ELSE Append(tbl, [id |-> Len(tbl) + 1, filename |-> filename, facility |-> facility,
                      date |-> date_value, chemist |-> chemist])

\* the name comment of lines 338-339 is bound nowhere in process_reports
CommentBound == FALSE

\* lines 331-345: INSERT INTO systems and commit; evaluating the parameter
\* tuple raises NameError on comment, which line 343 catches
insertSystem(tbl, values) ==
    IF ~CommentBound THEN tbl
    ELSE IF RowsWithSystem(tbl, values.report_id, values.system_name) # {} THEN tbl
    ELSE Append(tbl, [id |-> Len(tbl) + 1, comment |-> None] @@ values)

(***************************************************************************)
(* What lines 129-209 and 231-324 compute from one file is a function of   *)
(* the file alone; Extraction tabulates it for the files of the model.     *)
(***************************************************************************)
\* lines 250-324 for one data row, the report_id apart
assembleRow(headers, row) ==
    LET d == rowDict(headers, row)
    IN  [any    |-> anyCell(row),                           \* line 247
         atp    |-> atpKeys(d) # {},                        \* lines 276-281 call to_float
         name   |-> systemNameOf(clearedDict(d)),           \* lines 284-286
         values |-> systemValues(0, headers, d)]

\* lines 129-209 and 231-324 for one file
extract(f) ==
    [blank    |-> strip(f.text) = "",
     facility |-> facilityOf(f.text),
     date     |-> dateValueOf(f.text),
     chemist  |-> chemistOf(f.text),
     rows     |-> LET w == workRows(tablesOf(f))
                  IN  [i \in 1..Len(w) |-> assembleRow(w[i].headers, w[i].row)]]

AllFiles == {FileOf(i, t) : i \in 1..MaxFiles, t \in Templates}

Extraction == {<<f.name, f.text, extract(f)>> : f \in AllFiles}

extracted(f) == (CHOOSE e \in Extraction : e[1] = f.name /\ e[2] = f.text)[3]

\* lines 246-290: the system names the data rows of a file resolve to
systemNamesOf(f) ==
    {e.name : e \in {extracted(f).rows[i] : i \in 1..Len(extracted(f).rows)}} \ {None, ""}

(***************************************************************************)
(* The table assembler of extract_data_from_pdf (pdf_process.py, lines     *)
(* 94-141).  A located table is a sequence of rows, a row a sequence of    *)
(* cells, a cell a str or None; the empty row is <<>>.  A system is the    *)
(* dict system_data, as a function on its keys.                            *)
(***************************************************************************)
\* lines 69-71
known_headers ==
    <<"#", "System Type", "System Name", "Cond.", "pH", "Temp", "P Alk", "M Alk", "OH Alk",
      "Chloride", "Hardness", "Calcium", "PO4", "SO2", "Mo", "NO2", "Live ATP", "Glycol",
      "Free Chlorine", "Total Chlorine", "Max Temp.">>

\* line 95 without its filter: every row is counted
full_tableAllRows(table) == \A i \in 1..Len(table) : Len(table[i]) = Len(known_headers)

\* line 95: the rows that are falsy (empty) are left out of the test
full_table(table) ==
    \A i \in 1..Len(table) : table[i] # <<>> => Len(table[i]) = Len(known_headers)

\* line 99 with the dash left out of the list
skipExactNoDash(row) == row = <<>> \/ row[1] \in {"", None}

\* line 99
skipExact(row) == row = <<>> \/ row[1] \in {"", "-", None}

\* lines 101 and 113:  v.strip() if isinstance(v, str) else None
cleanCell(v) == IF v = None THEN None ELSE strip(v)

\* line 102: dict(zip(headers, cleaned_row)), the headers being distinct
exactData(row) ==
    LET n == IF Len(row) < Len(known_headers) THEN Len(row) ELSE Len(known_headers)
    IN  [k \in {known_headers[i] : i \in 1..n} |->
            cleanCell(row[CHOOSE i \in 1..n : known_headers[i] = k])]

\* lines 103 and 140 with the test left out
hasTypeOrNameAny(system_data) == TRUE

\* lines 103 and 140
hasTypeOrName(system_data) ==
    Truthy(get(system_data, "System Type", None)) \/ Truthy(get(system_data, "System Name", None))

\* str(row[0])
str(v) == IF v = None THEN "None" ELSE v

\* line 108: re.match(r'^\d+$|^\-$', s); $ also matches before a final newline
matchesIndex(s) ==
    LET t == IF endswith(s, "\n") THEN SubSeq(s, 1, Len(s) - 1) ELSE s
    IN  t = "-" \/ (t # "" /\ AllDigits(t))

\* line 113: the stripped non-blank str cells after the third
trailingValues(row) ==
    LET rest == SubSeq(row, 4, Len(row))
        kept == SelectSeq(rest, LAMBDA v : v # None /\ strip(v) # "")
    IN  [i \in 1..Len(kept) |-> strip(kept[i])]

\* line 126 taken one value too far
middleValuesLong(values) == SubSeq(values, 4, Len(values) - 1)

\* line 126: values[3:n - 2]
middleValues(values) == SubSeq(values, 4, Len(values) - 2)

\* line 127
middle_cols == <<"P Alk", "M Alk", "Chloride", "Hardness", "Calcium", "PO4", "SO2", "Mo">>

\* lines 119-125 without the loop of lines 126-130
distDataNoMiddle(values) ==
    LET n == Len(values)
    IN  IF n < 5 THEN <<>>
        ELSE [k \in {"Cond.", "pH", "Temp", "Free Chlorine", "Total Chlorine"} |->
                  CASE k = "Cond." -> values[1]
                    [] k = "pH" -> values[2]
                    [] k = "Temp" -> values[3]
                    [] k = "Free Chlorine" -> values[n - 1]
                    [] OTHER -> values[n]]

\* lines 119-130
distData(values) ==
    LET n == Len(values)
        middle_values == middleValues(values)
        m == IF Len(middle_values) < Len(middle_cols) THEN Len(middle_values) ELSE Len(middle_cols)
    IN  IF n < 5 THEN <<>>
        ELSE [k \in {"Cond.", "pH", "Temp", "Free Chlorine", "Total Chlorine"} |->
                  CASE k = "Cond." -> values[1]
                    [] k = "pH" -> values[2]
                    [] k = "Temp" -> values[3]
                    [] k = "Free Chlorine" -> values[n - 1]
                    [] OTHER -> values[n]]
             @@ [k \in {middle_cols[i] : i \in 1..m} |->
                    middle_values[CHOOSE i \in 1..m : middle_cols[i] = k]]

\* lines 132-138
nitriteData(values) ==
    LET n == Len(values)
    IN  IF n < 3 THEN <<>>
        ELSE [k \in {"Cond.", "pH", "NO2"} \cup (IF n > 3 THEN {"Glycol"} ELSE {}) |->
                  CASE k = "Cond." -> values[1]
                    [] k = "pH" -> values[2]
                    [] k = "NO2" -> values[3]
                    [] OTHER -> values[4]]

\* lines 110-138 with the branch of line 132 taken for every other type
fallbackDataAnyType(row) ==
    LET system_type == IF Len(row) > 1 /\ row[2] # None THEN strip(row[2]) ELSE None
        system_name == IF Len(row) > 2 /\ row[3] # None THEN strip(row[3]) ELSE None
        values == trailingValues(row)
        head == [k \in {"#", "System Type", "System Name"} |->
                    CASE k = "#" -> str(row[1])
                      [] k = "System Type" -> system_type
                      [] OTHER -> system_name]
    IN  IF ~Truthy(system_type) THEN head
        ELSE IF contains(system_type, "Dist") THEN distData(values) @@ head
        ELSE nitriteData(values) @@ head

\* lines 110-138
fallbackData(row) ==
    LET system_type == IF Len(row) > 1 /\ row[2] # None THEN strip(row[2]) ELSE None
        system_name == IF Len(row) > 2 /\ row[3] # None THEN strip(row[3]) ELSE None
        values == trailingValues(row)
        head == [k \in {"#", "System Type", "System Name"} |->
                    CASE k = "#" -> str(row[1])
                      [] k = "System Type" -> system_type
                      [] OTHER -> system_name]
    IN  IF ~Truthy(system_type) THEN head
        ELSE IF contains(system_type, "Dist") THEN distData(values) @@ head
        ELSE IF contains(system_type, "Nitrite") THEN nitriteData(values) @@ head
        ELSE head

\* lines 95-141 for one located table: the mode, and for every dict appended
\* to systems the dict and the row it was made from
assemblePage(table) ==
    IF full_table(table)
    THEN LET kept == SelectSeq(Tail(table),
                         LAMBDA row : ~skipExact(row) /\ hasTypeOrName(exactData(row)))
         IN  [mode |-> "exact", rows |-> kept,
              systems |-> [i \in 1..Len(kept) |-> exactData(kept[i])]]
    ELSE LET kept == SelectSeq(table,
                         LAMBDA row : /\ row # <<>>
                                      /\ matchesIndex(str(row[1]))
                                      /\ hasTypeOrName(fallbackData(row)))
         IN  [mode |-> "fallback", rows |-> kept,
              systems |-> [i \in 1..Len(kept) |-> fallbackData(kept[i])]]

(***************************************************************************)
(* The tables the strategies of lines 73-92 locate on the pages of a pdf.  *)
(***************************************************************************)
NoCells(n) == [i \in 1..n |-> None]

Full21Row == <<"1", "Dist", "Cold Loop", "850", " 8.1", "21">> \o NoCells(15)

Dash21Row == <<"-", "Dist", "Spare Loop", "700", "7.7">> \o NoCells(16)

HotLoopRow ==
    <<"2", "Dist", "Hot Loop", "900", "7.9", "22", "150", "50", "5", "3", "0.2", "0.5", "0.1",
      "1.2", "0.8">>

NitriteDashRow == <<"-", "CW Nitrite", "Chiller", "1200", "9.0", None, "800 ", "30%">>

UntypedRow == <<"3", None, " ", "12">>

EmptyRow == <<>>

DataRows ==
    {Full21Row, Dash21Row, HotLoopRow, NitriteDashRow, UntypedRow, EmptyRow, ExampleRow}

\* the located tables: a header row and one or two rows under it
LocatedTables ==
    {<<known_headers, a>> : a \in DataRows}
        \cup {<<known_headers, a, b>> : a, b \in DataRows}
        \cup {<<ExampleHeader, ExampleRow>>}

\* no table: the None of extract_table and of get_table_from_page
NoTable == <<>>

(***************************************************************************)
(* The two text parsers of pdf_process.py, over the stripped non-empty     *)
(* lines of a page's text.                                                 *)
(***************************************************************************)
\* lines 152 and 294: [line.strip() for line in text.split('\n') if line.strip()]
textLines(text) ==
    LET parts == split(text, "\n")
    IN  SelectSeq([i \in 1..Len(parts) |-> strip(parts[i])], LAMBDA l : l # "")

\* re.split(r'\s+', line) for a stripped line
RECURSIVE reSplitSpaces(_)
reSplitSpaces(line) ==
    LET gaps == {i \in 1..Len(line) : IsSpace(Char(line, i))}
        k == CHOOSE i \in gaps : \A j \in gaps : i <= j
    IN  IF gaps = {} THEN <<line>>
        ELSE <<SubSeq(line, 1, k - 1)>> \o reSplitSpaces(lstrip(SubSeq(line, k, Len(line))))

\* ' '.join(parts)
RECURSIVE joinSpace(_)
joinSpace(parts) ==
    IF Len(parts) = 1 THEN parts[1] ELSE parts[1] \o " " \o joinSpace(Tail(parts))

\* first index k >= i of lines with stop[k], Len(lines) + 1 when there is none:
\* where a while loop over lines that starts at i ends
loopEnd(lines, i, stop) ==
    LET ends_ == {k \in i..Len(lines) : stop[k]}
    IN  IF ends_ = {} THEN Len(lines) + 1 ELSE CHOOSE k \in ends_ : \A j \in ends_ : k <= j

\* lines 290-322; rows(i) is the rows made of the lines from line i on
parse_table_from_text(text) ==
    LET parse(lines) ==
            LET RECURSIVE rows(_)
                \* lines 305-319 for a line that opens a row; the values end before to
                row(i, parts, named, to) ==
                    <<(<<parts[1], IF Len(parts) > 1 THEN joinSpace(Tail(parts)) ELSE None>>
                          \o (IF named THEN <<lines[i + 1]>> ELSE <<>>)
                          \o SubSeq(lines, IF named THEN i + 2 ELSE i + 1, to - 1))>>
                        \o rows(to)
                \* the five patterns of lines 311-314 match a line that starts
                \* with a digit, and the line "."
                values(i, parts, named) ==
                    row(i, parts, named,
                        loopEnd(lines, IF named THEN i + 2 ELSE i + 1,
                                [k \in 1..Len(lines) |->
                                    ~(IsDigit(Char(lines[k], 1)) \/ lines[k] = ".")]))
                rows(i) ==
                    IF i > Len(lines) THEN <<>>
                    ELSE LET line == lines[i]
                             others == {k \in 1..Len(line) : ~IsDigit(Char(line, k))}
                             digits == IF others = {} THEN Len(line)
                                       ELSE (CHOOSE k \in others : \A j \in others : k <= j) - 1
                             \* re.match of '^\d+ ', '^\d+$' or '^\-$'
                             opens == \/ /\ digits >= 1
                                         /\ (digits = Len(line) \/ Char(line, digits + 1) = " ")
                                      \/ line = "-"
                         IN  IF opens
                             THEN values(i, reSplitSpaces(line),
                                         /\ i + 1 <= Len(lines)
                                         /\ ~IsDigit(Char(lines[i + 1], 1))
                                         /\ ~startswith(lines[i + 1], "-"))
                             ELSE rows(i + 1)
            IN  rows(1)
    IN  parse(textLines(text))

\* line 155
possible_cols ==
    <<"Cond.", "pH", "Temp", "P Alk", "M Alk", "OH Alk", "Chloride", "Hardness", "Calcium", "PO4",
      "SO2", "Mo", "NO2", "Live ATP", "Glycol", "Free Cl", "Total Cl", "Max Temp.",
      "Free Chlorine", "Total Chlorine", "Temp (*C)", "Max Temp (*C)">>

\* lines 148-206; outer(i) is the loop of line 157 from line i on, inner(i, cols)
\* the loop of line 169 from line i on under the columns cols
parse_vertical_table_from_text(text) ==
    LET \* line 185
        possible_types ==
            <<"Cooling Tower (Mo)", "CW Nitrite", "MTW Nitrite", "Dist", "Boiler", "Softener",
              "Condensate">>
        \* line 176: re.match(r'^\d+\.?\d*$|^\-*$|^\.$|^0$', line)
        matchesValue(line) ==
            LET dot == find(line, ".", 1)
                ip == IF dot = 0 THEN line ELSE SubSeq(line, 1, dot - 1)
                fp == IF dot = 0 THEN "" ELSE SubSeq(line, dot + 1, Len(line))
            IN  \/ ip # "" /\ AllDigits(ip) /\ AllDigits(fp)
                \/ \A k \in 1..Len(line) : Char(line, k) = "-"
                \/ line = "."
        parse(lines) ==
            LET RECURSIVE inner(_, _)
                RECURSIVE outer(_)
                \* lines 184-203 for the sample id sample_id, its values from line to on
                record(cols, to, sample_id) ==
                    LET found == {t \in 1..Len(possible_types) :
                                     contains(sample_id, possible_types[t])}
                        type_ == IF found = {} THEN ""
                                 ELSE possible_types[CHOOSE t \in found : \A u \in found : t <= u]
                        name == IF found = {} THEN sample_id
                                ELSE strip(replace(sample_id, type_, ""))
                        n == IF Len(lines) - to + 1 < Len(cols) THEN Len(lines) - to + 1
                             ELSE Len(cols)
                        values == [k \in 1..n |-> IF lines[to + k - 1] = "-" THEN None
                                                  ELSE strip(lines[to + k - 1])]
                        system_data ==
                            [c \in {cols[k] : k \in 1..n} |->
                                values[CHOOSE k \in 1..n :
                                           cols[k] = c /\ \A j \in (k + 1)..n : cols[j] # c]]
                            @@ [c \in {"System Name", "System Type"} |->
                                   IF c = "System Name" THEN name ELSE type_]
                    IN  <<system_data>> \o inner(to + n, cols)
                \* lines 174-183: the sample id is the lines from i up to to
                sample(i, cols, to) ==
                    IF to = i THEN inner(i + 1, cols)
                    ELSE record(cols, to, strip(joinSpace(SubSeq(lines, i, to - 1))))
                inner(i, cols) ==
                    IF i > Len(lines) THEN <<>>
                    ELSE IF startswith(lines[i], "Range") THEN inner(i + 1 + Len(cols), cols)
                    ELSE sample(i, cols,
                                loopEnd(lines, i,
                                        [k \in 1..Len(lines) |->
                                            \/ matchesValue(lines[k])
                                            \/ startswith(lines[k], "Range")]))
                \* lines 160-167: the column names are the lines from i + 1 up to to
                columns(i, to) ==
                    IF to = i + 1 THEN outer(i + 2)
                    ELSE inner(to, SubSeq(lines, i + 1, to - 1))
                outer(i) ==
                    IF i > Len(lines) THEN <<>>
                    ELSE IF lines[i] = "Sample ID"
                    THEN columns(i, loopEnd(lines, i + 1,
                                            [k \in 1..Len(lines) |->
                                                \A c \in 1..Len(possible_cols) :
                                                    possible_cols[c] # lines[k]]))
                    ELSE outer(i + 1)
            IN  outer(1)
    IN  parse(textLines(text))

(***************************************************************************)
(* The pages of a pdf.  A page is what the library gives for it: the table *)
(* of each of the two extract_table calls, the table get_table_from_page   *)
(* builds from extract_words, and extract_text.  NoTable stands for None.  *)
(***************************************************************************)
\* text in which parse_table_from_text finds two rows
PatternText ==
    "Water Analysis\n1 Dist\nCold Loop\n850\n8.1\n21\n1.0\n0.5\nOK\n 2 Boiler \nSteam\n2500\n11.0\n40"

\* text with a vertical table, in which parse_table_from_text finds one row
VerticalText ==
    "Sample ID\nCond.\npH\nRange\n0.5\n14.5\nDist Cold\nLoop\n850.5\n8.1\nBoiler\n-\n11.2\nTank\n5.5"

Pages ==
    {[ruled |-> t, aligned |-> NoTable, clustered |-> NoTable, page_text |-> ""] :
        t \in LocatedTables}
        \cup {[ruled |-> <<known_headers>>, aligned |-> <<known_headers, Full21Row>>,
               clustered |-> <<ExampleHeader, ExampleRow>>, page_text |-> PatternText],
              [ruled |-> <<known_headers, HotLoopRow>>, aligned |-> <<known_headers, Full21Row>>,
               clustered |-> NoTable, page_text |-> VerticalText],
              [ruled |-> NoTable, aligned |-> <<known_headers>>,
               clustered |-> <<ExampleHeader, ExampleRow>>, page_text |-> None],
              \* a Dist row with fourteen values under the header
              [ruled |-> <<known_headers,
                           <<"4", "Dist", "Long Loop", "11", "12", "13", "14", "15", "16", "17",
                             "18", "19", "20", "21", "22", "23", "24">> >>,
               aligned |-> NoTable, clustered |-> NoTable, page_text |-> ""]}
        \cup {[ruled |-> NoTable, aligned |-> <<ExampleHeader>>, clustered |-> t, page_text |-> s] :
                  t \in {NoTable, <<known_headers>>},
                  s \in {None, "", " \n", "No samples were taken.", PatternText, VerticalText}}

\* the calls of lines 74-91, in the order of the source
Strategies ==
    <<"extract_table lines", "extract_table text", "get_table_from_page",
      "parse_table_from_text", "parse_vertical_table_from_text">>

\* lines 77-89 with  table is None  for  table is None or len(table) < 2
locateAnyTable(page) ==
    LET second == page.ruled = NoTable
        t2 == IF second THEN page.aligned ELSE page.ruled
        third == t2 = NoTable
        t3 == IF third THEN page.clustered ELSE t2
        fourth == t3 = NoTable /\ page.page_text # None
        t4 == IF fourth THEN parse_table_from_text(page.page_text) ELSE t3
        fifth == fourth /\ t4 = NoTable /\ page.page_text # ""
    IN  [tried |-> SelectSeq(Strategies,
                       LAMBDA s : \/ s = Strategies[1]
                                  \/ s = Strategies[2] /\ second
                                  \/ s = Strategies[3] /\ third
                                  \/ s = Strategies[4] /\ fourth
                                  \/ s = Strategies[5] /\ fifth),
         table |-> t4,
         vertical |-> IF fifth THEN parse_vertical_table_from_text(page.page_text) ELSE <<>>]

\* lines 74-92 for one page: the strategies called, the table line 95 is
\* reached with (NoTable when the page is left by a continue) and the dicts
\* of line 91
locate(page) ==
    LET second == Len(page.ruled) < 2
        t2 == IF second THEN page.aligned ELSE page.ruled
        third == Len(t2) < 2
        t3 == IF third THEN page.clustered ELSE t2
        fourth == Len(t3) < 2 /\ page.page_text # None
        \* lines 86-92 once line 85 has left t4 in table
        rest(t4) ==
            LET fifth == fourth /\ Len(t4) < 2 /\ page.page_text # ""
            IN  [tried |-> SelectSeq(Strategies,
                               LAMBDA s : \/ s = Strategies[1]
                                          \/ s = Strategies[2] /\ second
                                          \/ s = Strategies[3] /\ third
                                          \/ s = Strategies[4] /\ fourth
                                          \/ s = Strategies[5] /\ fifth),
                 table |-> IF Len(t4) < 2 THEN NoTable ELSE t4,
                 vertical |-> IF fifth THEN parse_vertical_table_from_text(page.page_text)
                              ELSE <<>>]
    IN  rest(IF fourth THEN parse_table_from_text(page.page_text) ELSE t3)

\* lines 74-141 for one page: what locate gives and, for every dict added to
\* systems, the dict and the row it was made from (for a dict of line 91 its
\* type and name)
processPage(page) ==
    LET result(loc) ==
            IF loc.table = NoTable
            THEN [tried |-> loc.tried, table |-> NoTable, mode |-> "none",
                  rows |-> [i \in 1..Len(loc.vertical) |->
                               <<loc.vertical[i]["System Type"], loc.vertical[i]["System Name"]>>],
                  systems |-> loc.vertical]
            ELSE [tried |-> loc.tried, table |-> loc.table] @@ assemblePage(loc.table)
    IN  result(locate(page))

\* lines 74-141 for the pages of the model
PageOutcome == [p \in Pages |-> processPage(p)]


(***************************************************************************)
(* The column normalizer of mssql_exporter.py.                             *)
(***************************************************************************)
\* lines 13-19, for a str name; c.isalnum() holds of the letters and digits
clean_column(name) ==
    LET replaced == strip(replace(replace(replace(replace(name, "\n", " "), "µ", "u"), ".", ""),
                                  "°", ""))
        kept == SelectSeq([i \in 1..Len(replaced) |-> Char(replaced, i)],
                          LAMBDA c : IsLetter(c) \/ IsDigit(c) \/ c = " ")
    IN  replace(join(kept), " ", "_")

\* lines 33-62
column_mapping ==
    [k \in {"P_Alkalinity_CaCO3_mgL", "P_Alk"} |-> "p_alkalinity"]
        @@ [k \in {"M_Alkalinity_CaCO3_mgL", "M_Alk"} |-> "m_alkalinity"]
        @@ [k \in {"Cl_mgL", "Chloride"} |-> "chloride"]
        @@ [k \in {"Hardness_CaCO3_mgL", "Hardness"} |-> "hardness"]
        @@ [k \in {"Ca_CaCO3_mgL", "Calcium"} |-> "calcium"]
        @@ [k \in {"Cond_uScm", "Cond"} |-> "conductivity"]
        @@ [k \in {"pH"} |-> "ph"]
        @@ [k \in {"Temp_C", "Temp"} |-> "temperature"]
        @@ [k \in {"NO2_mgL", "NO2"} |-> "no2"]
        @@ [k \in {"FREE_CHLORINE_ppm", "Free_Chlorine"} |-> "free_chlorine"]
        @@ [k \in {"TOTAL_CHLORINE_ppm", "Total_Chlorine"} |-> "total_chlorine"]
        @@ [k \in {"Susp_Solids"} |-> "susp_solids"]
        @@ [k \in {"PO4"} |-> "po4"]
        @@ [k \in {"SO2"} |-> "so2"]
        @@ [k \in {"Mo"} |-> "mo"]
        @@ [k \in {"Live_ATP"} |-> "live_atp"]
        @@ [k \in {"Glycol"} |-> "glycol"]
        @@ [k \in {"Max_Temp"} |-> "max_temperature"]

\* lines 79-80 (the same at 87-88, 179-180, 200-201):
\* column_mapping.get(cleaned, cleaned.lower())
standard(key) ==
    LET cleaned == clean_column(key)
    IN  IF cleaned \in DOMAIN column_mapping THEN column_mapping[cleaned] ELSE lower(cleaned)

\* the keys given to the normalizer: the keys and the values of
\* column_mapping, and the column labels of the extracted tables
Labels ==
    DOMAIN column_mapping
        \cup {column_mapping[k] : k \in DOMAIN column_mapping}
        \cup {known_headers[i] : i \in 4..Len(known_headers)}
        \cup {possible_cols[i] : i \in 1..Len(possible_cols)}
        \cup {"Cond. (µS/cm)", "P Alkalinity\nCaCO3 (mg/L)", "Temp (°C)", "Turbidity (NTU)", ""}

\* lines 79-80 for the keys of the model
standardOf == [key \in Labels |-> standard(key)]

\* the cells given to the value coercer: None, the strings of at most
\* MaxCellLen characters over an alphabet of digits, signs, blanks and
\* letters, and cells of reports
Cells ==
    LET alphabet == {"1", "5", ".", "-", " ", "|", "m"}
        RECURSIVE upTo(_)
        upTo(n) ==
            IF n = 0 THEN {""}
            ELSE LET shorter == upTo(n - 1)
                 IN  shorter \cup {a \o b : a \in alphabet, b \in shorter}
    IN  upTo(MaxCellLen) \cup {None, "123.45 mg/L", "OK", "85 | 12", "40|3", "1.2.3", "7.2 "}

(***************************************************************************)
(* mssql_exporter.py up to the closing of combined.db.  A JSON file is its *)
(* name, whether json.load reads it, its facility, and the dicts of its    *)
(* list systems or measurements.  A database is the rows of documents and  *)
(* of data as the connection sees them, and how many of them are committed.*)
(***************************************************************************)
\* docx_process.py lines 45-56: the list measurements that extract_data
\* makes of the table of water samples, given as the texts of its cells; a
\* later column of the same label overwrites an earlier one
extract_data(the_table) ==
    LET headers == [i \in 1..Len(the_table[1]) |-> strip(the_table[1][i])]
        measurement(row_data) ==
            LET zipped == 2..(IF Len(headers) < Len(row_data) THEN Len(headers)
                              ELSE Len(row_data))
            IN  [k \in {"distribution"} \cup {headers[i] : i \in zipped} |->
                    IF \E i \in zipped : headers[i] = k
                    THEN strip(row_data[CHOOSE i \in zipped :
                                            /\ headers[i] = k
                                            /\ \A j \in zipped : headers[j] = k => j <= i])
                    ELSE strip(row_data[1])]
        kept(rows) == [i \in 1..Len(rows) |-> measurement(rows[i])]
    IN  kept(SelectSeq(Tail(the_table), LAMBDA row : row # <<>> /\ strip(row[1]) # ""))

JsonTemplates ==
    {[ext |-> ".json", loads |-> TRUE, facility |-> "East", list |-> "measurements",
      entries |-> extract_data(<< <<"GWT Names", "P Alkalinity\nCaCO3 (mg/L)", "Hardness">>,
                                  <<"Loop A", "150", " 90">>,
                                  <<"", "1", "2">>,
                                  <<"Loop B", "", "85">> >>)],
     [ext |-> ".json", loads |-> TRUE, facility |-> "Plant", list |-> "systems",
      entries |-> << [k \in {"#", "System Type", "System Name", "Cond.", "pH"} |->
                         CASE k = "#" -> "1"
                           [] k = "System Type" -> "Dist"
                           [] k = "System Name" -> "Cold Loop"
                           [] k = "Cond." -> "850"
                           [] OTHER -> "8.1"] >>],
     [ext |-> ".JSON", loads |-> TRUE, facility |-> "Plant", list |-> "systems",
      entries |-> << [k \in {"#", "System Type", "System Name", "Cond."} |-> k],
                     [k \in {"#", "System Type", "System Name", "Turbidity (NTU)", "Live ATP"} |->
                         CASE k = "#" -> "2"
                           [] k = "System Type" -> "Boiler"
                           [] k = "System Name" -> "Steam"
                           [] k = "Turbidity (NTU)" -> "3"
                           [] OTHER -> None] >>],
     [ext |-> ".json", loads |-> TRUE, facility |-> "West", list |-> "measurements",
      entries |-> << [k \in {"distribution", "P Alkalinity\nCaCO3 (mg/L)", ""} |->
                         CASE k = "distribution" -> "Loop A"
                           [] k = "" -> "x"
                           [] OTHER -> "150"],
                     [k \in {"distribution", "P Alkalinity\nCaCO3 (mg/L)", "Hardness"} |->
                         CASE k = "distribution" -> "Loop B"
                           [] k = "Hardness" -> "90"
                           [] OTHER -> ""] >>],
     [ext |-> ".json", loads |-> TRUE, facility |-> None, list |-> "systems",
      entries |-> << [k \in {"System Type", "System Name", "Mo"} |->
                         CASE k = "System Type" -> "Dist"
                           [] k = "System Name" -> "Annex"
                           [] OTHER -> "4"] >>],
     [ext |-> ".json", loads |-> FALSE, facility |-> None, list |-> "systems", entries |-> <<>>],
     [ext |-> ".txt", loads |-> FALSE, facility |-> None, list |-> "systems", entries |-> <<>>]}

\* lines 64-93 without the branch of lines 82-88: the keys of the lists
\* measurements are not collected
params_setSystemsOnly(walk) ==
    UNION {UNION {{standardOf[key] :
                      key \in DOMAIN walk[i].entries[j] \ {"#", "System Type", "System Name"}} :
                  j \in 1..Len(walk[i].entries)} :
           i \in {n \in 1..Len(walk) : /\ endswith(lower(walk[n].name), ".json")
                                       /\ walk[n].loads
                                       /\ walk[n].list = "systems"}}

\* lines 64-93: params_set over the files of one walk; the keys of a dict
\* that are no metric are #, System Type, System Name (line 77) or
\* distribution (line 85)
params_set(walk) ==
    UNION {UNION {{standardOf[key] :
                      key \in DOMAIN walk[i].entries[j]
                                  \ (IF walk[i].list = "systems"
                                     THEN {"#", "System Type", "System Name"}
                                     ELSE {"distribution"})} :
                  j \in 1..Len(walk[i].entries)} :
           i \in {n \in 1..Len(walk) : endswith(lower(walk[n].name), ".json") /\ walk[n].loads}}

\* lines 145-214: the loop over the files of the walk, from its first file
\* on; date and chemist are left out of the rows of data
RECURSIVE exportFiles(_, _, _)
exportFiles(db, walk, params) ==
    IF walk = <<>> THEN db
    ELSE LET f == Head(walk)
             doc_id == Len(db.documents) + 1
             withDoc == [db EXCEPT !.documents = Append(@, [id |-> doc_id, filename |-> f.name])]
             \* line 171 for a dict of systems, line 192 for a dict of measurements
             valid(entry) ==
                 IF f.list = "systems"
                 THEN /\ get(entry, "#", None) # "#"
                      /\ get(entry, "System Type", None) \notin {None, "-"}
                      /\ get(entry, "System Name", None) # None
                      /\ ~contains(get(entry, "System Type", None), "\n")
                      /\ ~contains(get(entry, "System Name", None), "\n")
                 ELSE /\ get(entry, "distribution", None) # None
                      /\ ~contains(entry["distribution"], "Water Samples")
                      /\ strip(entry["distribution"]) # ""
             \* lines 176-182 and 197-203: standard_dict.get(p); the raw keys of
             \* a dict of the model are normalized to different keys
             value(entry, p) ==
                 LET raw == {key \in DOMAIN entry
                                        \ (IF f.list = "systems"
                                           THEN {"#", "System Type", "System Name"}
                                           ELSE {"distribution"}) : standardOf[key] = p}
                     val == entry[CHOOSE key \in raw : TRUE]
                 IN  IF raw = {} THEN None
                     ELSE IF f.list = "measurements" /\ val = "" THEN None
                     ELSE val
             row(entry) ==
                 [document_id |-> doc_id,
                  facility_name |-> f.facility,
                  system_type |-> IF f.list = "systems" THEN entry["System Type"] ELSE None,
                  system_name |-> IF f.list = "systems" THEN entry["System Name"]
                                  ELSE entry["distribution"],
                  metrics |-> [p \in params |-> value(entry, p)]]
             \* line 190: measurements[1:]
             listed == IF f.list = "systems" \/ f.entries = <<>> THEN f.entries
                       ELSE Tail(f.entries)
             kept == SelectSeq(listed, valid)
             withRows == [withDoc EXCEPT !.data = @ \o [i \in 1..Len(kept) |-> row(kept[i])]]
             after ==
                 IF ~endswith(lower(f.name), ".json") \/ ~f.loads THEN db         \* 148, 152
                 ELSE IF f.facility = None \/ strip(f.facility) = "" THEN withDoc  \* 157-159
                 ELSE IF kept = <<>> THEN withRows                                 \* 211
                 ELSE [withRows EXCEPT !.saved = [documents |-> Len(withRows.documents),
                                                  data |-> Len(withRows.data)]]   \* 209-210
         IN  exportFiles(after, Tail(walk), params)

(***************************************************************************)
(* process_reports as a state machine.  One step is the code between two   *)
(* commits, so that a run can be interrupted between any two of them.      *)
(***************************************************************************)
VARIABLES
    dir,             \* the reports directory, in os.listdir order
    files,           \* the local files (line 118)
    reports,         \* committed rows of table reports
    systems,         \* committed rows of table systems
    pc,              \* "idle": no run; "file": at line 121; "rows": at line 246
    fileIdx,         \* position of the loop of line 121 in files
    rowIdx,          \* position of the loops of lines 231/246 in the file's data rows
    report_id,       \* the local report_id (line 223)
    to_float_bound,  \* whether line 293 has bound the local name to_float in this call
    runs,            \* number of runs started
    outcome,         \* how the last run ended: "none", "ok", "exception", "interrupted"
    ends,            \* per ended run: its outcome and the row counts it left
    visited,         \* indices of files the loop of line 121 reached in this run
    failed,          \* names of the files an except clause logged an error for in this run
    expected,        \* (report_id, system_name) of the rows that reached the INSERT of line 331
    newDocs,         \* names of the files whose reports row this run inserted
    halfDone,        \* names of the files a run was interrupted in after their reports row
    pcPdf,           \* extract_data_from_pdf: "pages" in the loop of line 73, "returned" after 145
    pageNo,          \* number of pages the loop of line 73 has gone through
    pdfSystems,      \* the local list systems (line 68)
    origin,          \* for each dict of pdfSystems: the page, the mode and the row it comes from
    seen,            \* for each page gone through: the page, the strategies called, its table
                     \* and the mode of line 95
    extracted_data,  \* the dict returned (line 15), its key systems
    rawLabel,        \* the key last given to the column normalizer
    canonKey,        \* what the normalizer returned for rawLabel
    rawCell,         \* the cell last given to the value coercer
    cellHeader,      \* the normalized header of the column of rawCell, None for a bare call
    coercedValue,    \* what the coercer returned for rawCell
    jsonDir,         \* the JSON directory of the exporter, in os.walk order
    documents,       \* committed rows of table documents of combined.db
    dataTable,       \* committed rows of table data
    dataColumns,     \* the metric columns of table data
    addedColumns,    \* the columns ALTER TABLE has added (line 138)
    exports,         \* number of runs of the exporter
    pPc,             \* a text parser: "idle" before the call, the line of the loop test
                     \* it is at, "done" after its return
    pLines,          \* its local lines (lines 152, 294)
    pCursor,         \* its local i
    pCols,           \* the local cols of the vertical parser
    pRow,            \* the local row (line 306) or sample_id_lines (line 175)
    pVals,           \* the local values (line 192)
    pOut,            \* the local table (line 295) or systems (line 153)
    pRead,           \* the highest index lines was read at, -1 before a read
    pUsed,           \* vertical parser: for each line put into a dict, its index and
                     \* whether it went into the sample id or into a value
    pWords,          \* get_table_from_page: the words of the page (line 210)
    pCells,          \* get_table_from_page: its locals median_height, columns (a centre
                     \* as the sum and the number of its x0s) and, for each row group,
                     \* row_cells
    pMark            \* i when the iteration under way of the outer loop (outer), of the
                     \* loop of line 169 (inner) began, and when line 169 was first
                     \* reached (body)

varsReports ==
    <<dir, files, reports, systems, pc, fileIdx, rowIdx, report_id, to_float_bound, runs, outcome,
      ends, visited, failed, expected, newDocs, halfDone>>

varsPdf == <<pcPdf, pageNo, pdfSystems, origin, seen, extracted_data>>

varsExport == <<jsonDir, documents, dataTable, dataColumns, addedColumns, exports>>

varsText ==
    <<pPc, pLines, pCursor, pCols, pRow, pVals, pOut, pRead, pUsed, pMark, pWords, pCells>>

varsAux == <<rawLabel, canonKey, rawCell, cellHeader, coercedValue, varsExport, varsText>>

vars == <<varsReports, varsPdf, varsAux>>

\* the assembled data rows of the file the loop of line 121 is at
work == extracted(files[fileIdx]).rows

EndOfRun(how) == Append(ends, [outcome |-> how, reports |-> Len(reports), systems |-> Len(systems)])

\* lines 15-20 and 68 of pdf_process.py
InitPdfVars ==
    /\ pcPdf = "pages"
    /\ pageNo = 0
    /\ pdfSystems = <<>>
    /\ origin = <<>>
    /\ seen = <<>>
    /\ extracted_data = [systems |-> <<>>]
    /\ rawLabel = ""
    /\ canonKey = ""
    /\ rawCell = None
    /\ cellHeader = None
    /\ coercedValue = NoFloat
    /\ jsonDir = <<>>
    /\ documents = <<>>
    /\ dataTable = <<>>
    /\ dataColumns = {}
    /\ addedColumns = {}
    /\ exports = 0
    /\ pPc = "idle"
    /\ pLines = <<>>
    /\ pCursor = 0
    /\ pCols = <<>>
    /\ pRow = <<>>
    /\ pVals = <<>>
    /\ pOut = <<>>
    /\ pRead = -1
    /\ pUsed = {}
    /\ pMark = [outer |-> 0, inner |-> 0, body |-> 0]
    /\ pWords = <<>>
    /\ pCells = [median_height |-> 0, columns |-> <<>>, row_cells |-> <<>>]

InitReports(dirs) ==
    /\ dir \in dirs
    /\ files = <<>>
    /\ reports = <<>>
    /\ systems = <<>>
    /\ pc = "idle"
    /\ fileIdx = 1
    /\ rowIdx = 1
    /\ report_id = 0
    /\ to_float_bound = FALSE
    /\ runs = 0
    /\ outcome = "none"
    /\ ends = <<>>
    /\ visited = {}
    /\ failed = {}
    /\ expected = {}
    /\ newDocs = {}
    /\ halfDone = {}

Init == InitReports(Directories) /\ InitPdfVars

\* lines 28-119: connect, CREATE TABLE IF NOT EXISTS, commit, list the files
StartRun ==
    /\ pc = "idle"
    /\ runs < MaxRuns
    /\ pc' = "file"
    /\ files' = listFiles(dir)
    /\ fileIdx' = 1
    /\ rowIdx' = 1
    /\ to_float_bound' = FALSE
    /\ runs' = runs + 1
    /\ visited' = {}
    /\ failed' = {}
    /\ newDocs' = {}
    /\ UNCHANGED <<dir, reports, systems, report_id, outcome, ends, expected, halfDone>>
    /\ UNCHANGED <<varsPdf, varsAux>>

\* lines 121-228: one file, up to the commit of its reports row
ProcessFile ==
    /\ pc = "file"
    /\ fileIdx <= Len(files)
    /\ \E x \in {extracted(files[fileIdx])} :
         LET f        == files[fileIdx]
             skipped  == \/ f.size = 0                                  \* line 124
                         \/ ~f.readable                                 \* lines 143, 158
                         \/ x.blank                                     \* line 162
                         \/ RowsWithFilename(reports, f.name) # {}      \* line 214
             inserted == insertReport(reports, f.name, x.facility, x.date, x.chemist)
         IN  /\ visited' = visited \cup {fileIdx}
             /\ IF skipped
                THEN /\ failed' = IF f.size # 0 /\ ~f.readable THEN failed \cup {f.name} ELSE failed
                     /\ fileIdx' = fileIdx + 1
                     /\ UNCHANGED <<reports, pc, rowIdx, report_id, newDocs>>
                ELSE /\ reports' = inserted
                     /\ IF inserted = reports
                        THEN /\ failed' = failed \cup {f.name}              \* line 226
                             /\ fileIdx' = fileIdx + 1
                             /\ UNCHANGED <<pc, rowIdx, report_id, newDocs>>
                        ELSE /\ report_id' = Len(inserted)                  \* line 223
                             /\ newDocs' = newDocs \cup {f.name}
                             /\ rowIdx' = 1
                             /\ IF x.rows = <<>>
                                THEN pc' = "file" /\ fileIdx' = fileIdx + 1
                                ELSE pc' = "rows" /\ fileIdx' = fileIdx
                             /\ UNCHANGED failed
    /\ UNCHANGED <<dir, files, systems, to_float_bound, runs, outcome, ends, expected, halfDone>>
    /\ UNCHANGED <<varsPdf, varsAux>>

\* lines 246-345: one data row, up to the commit of its systems row
ProcessRow ==
    /\ pc = "rows"
    /\ \E w \in {work} :
       LET f       == files[fileIdx]
           r       == w[rowIdx]
           raises  == /\ r.any
                      /\ \/ r.atp /\ ~to_float_bound          \* lines 279, 281: UnboundLocalError
                         \/ r.name = None                     \* line 286: TypeError
           reached == r.any /\ ~raises /\ r.name # ""         \* line 293 is executed
           fresh   == RowsWithSystem(systems, report_id, r.name) = {}   \* line 328
           stored  == IF reached /\ fresh
                      THEN insertSystem(systems, [r.values EXCEPT !.report_id = report_id])
                      ELSE systems
           error   == reached /\ fresh /\ stored = systems     \* line 343
       IN  IF raises
           THEN \* the exception leaves process_reports: the run is over
                /\ pc' = "idle"
                /\ outcome' = "exception"
                /\ ends' = EndOfRun("exception")
                /\ UNCHANGED <<systems, fileIdx, rowIdx, to_float_bound, failed, expected>>
           ELSE /\ systems' = stored
                /\ to_float_bound' = (to_float_bound \/ reached)
                /\ failed' = IF error THEN failed \cup {f.name} ELSE failed
                /\ expected' = IF reached /\ fresh
                                THEN expected \cup {<<report_id, r.name>>}
                                ELSE expected
                /\ IF rowIdx < Len(w)
                   THEN rowIdx' = rowIdx + 1 /\ UNCHANGED <<pc, fileIdx>>
                   ELSE rowIdx' = 1 /\ pc' = "file" /\ fileIdx' = fileIdx + 1
                /\ UNCHANGED <<outcome, ends>>
    /\ UNCHANGED <<dir, files, reports, report_id, runs, visited, newDocs, halfDone>>
    /\ UNCHANGED <<varsPdf, varsAux>>

\* lines 347-354: the loop is over, close the connection
FinishRun ==
    /\ pc = "file"
    /\ fileIdx > Len(files)
    /\ pc' = "idle"
    /\ outcome' = "ok"
    /\ ends' = EndOfRun("ok")
    /\ UNCHANGED <<dir, files, reports, systems, fileIdx, rowIdx, report_id, to_float_bound, runs,
                   visited, failed, expected, newDocs, halfDone>>
    /\ UNCHANGED <<varsPdf, varsAux>>

\* the process is killed between two commits; the database keeps what was committed
Interrupt ==
    /\ pc # "idle"
    /\ pc' = "idle"
    /\ outcome' = "interrupted"
    /\ ends' = EndOfRun("interrupted")
    /\ halfDone' = IF pc = "rows" THEN halfDone \cup {files[fileIdx].name} ELSE halfDone
    /\ UNCHANGED <<dir, files, reports, systems, fileIdx, rowIdx, report_id, to_float_bound, runs,
                   visited, failed, expected, newDocs>>
    /\ UNCHANGED <<varsPdf, varsAux>>

Next == StartRun \/ ProcessFile \/ ProcessRow \/ FinishRun \/ Interrupt

Spec == Init /\ [][Next]_vars

(***************************************************************************)
(* extract_data_from_pdf as a state machine: one step per page of the pdf. *)
(***************************************************************************)
\* lines 73-104: a page whose table is taken in exact-header mode
ExactPage ==
    /\ pcPdf = "pages"
    /\ pageNo < MaxPages
    /\ \E p \in Pages : \E res \in {PageOutcome[p]} :
           /\ res.mode = "exact"
           /\ pageNo' = pageNo + 1
           /\ pdfSystems' = pdfSystems \o res.systems
           /\ origin' = origin \o [i \in 1..Len(res.rows) |->
                                      [page |-> pageNo + 1, mode |-> res.mode, row |-> res.rows[i]]]
           /\ seen' = Append(seen, [table |-> res.table, mode |-> res.mode, tried |-> res.tried,
                                    input |-> p])
    /\ UNCHANGED <<pcPdf, extracted_data>>
    /\ UNCHANGED <<varsReports, varsAux>>

\* lines 73-95 and 105-141: a page whose table is taken by position
FallbackPage ==
    /\ pcPdf = "pages"
    /\ pageNo < MaxPages
    /\ \E p \in Pages : \E res \in {PageOutcome[p]} :
           /\ res.mode = "fallback"
           /\ pageNo' = pageNo + 1
           /\ pdfSystems' = pdfSystems \o res.systems
           /\ origin' = origin \o [i \in 1..Len(res.rows) |->
                                      [page |-> pageNo + 1, mode |-> res.mode, row |-> res.rows[i]]]
           /\ seen' = Append(seen, [table |-> res.table, mode |-> res.mode, tried |-> res.tried,
                                    input |-> p])
    /\ UNCHANGED <<pcPdf, extracted_data>>
    /\ UNCHANGED <<varsReports, varsAux>>

\* lines 73-92: a page left at line 92 with the dicts of the vertical parser
VerticalPage ==
    /\ pcPdf = "pages"
    /\ pageNo < MaxPages
    /\ \E p \in Pages : \E res \in {PageOutcome[p]} :
           /\ res.mode = "none"
           /\ res.systems # <<>>
           /\ pageNo' = pageNo + 1
           /\ pdfSystems' = pdfSystems \o res.systems
           /\ origin' = origin \o [i \in 1..Len(res.rows) |->
                                      [page |-> pageNo + 1, mode |-> "vertical", row |-> res.rows[i]]]
           /\ seen' = Append(seen, [table |-> res.table, mode |-> res.mode, tried |-> res.tried,
                                    input |-> p])
    /\ UNCHANGED <<pcPdf, extracted_data>>
    /\ UNCHANGED <<varsReports, varsAux>>

\* lines 73-92: a page left at line 86 or 92 with nothing added to systems
SkipPage ==
    /\ pcPdf = "pages"
    /\ pageNo < MaxPages
    /\ \E p \in Pages : \E res \in {PageOutcome[p]} :
           /\ res.mode = "none"
           /\ res.systems = <<>>
           /\ pageNo' = pageNo + 1
           /\ seen' = Append(seen, [table |-> res.table, mode |-> res.mode, tried |-> res.tried,
                                    input |-> p])
    /\ UNCHANGED <<pcPdf, pdfSystems, origin, extracted_data>>
    /\ UNCHANGED <<varsReports, varsAux>>

\* lines 143-145: the last page is done (a pdf has a page, line 23)
ReturnData ==
    /\ pcPdf = "pages"
    /\ pageNo >= 1
    /\ pcPdf' = "returned"
    /\ extracted_data' = [extracted_data EXCEPT !.systems = pdfSystems]
    /\ UNCHANGED <<pageNo, pdfSystems, origin, seen>>
    /\ UNCHANGED <<varsReports, varsAux>>

InitPdf == InitReports({<<>>}) /\ InitPdfVars

NextPdf == ExactPage \/ FallbackPage \/ VerticalPage \/ SkipPage \/ ReturnData

SpecPdf == InitPdf /\ [][NextPdf]_vars

(***************************************************************************)
(* The column normalizer and the value coercer, called once on one input.  *)
(***************************************************************************)
\* mssql_exporter.py lines 79-80: one key is normalized
Normalize ==
    /\ rawLabel = "" /\ rawCell = None /\ cellHeader = None
    /\ \E key \in Labels :
           /\ rawLabel' = key
           /\ canonKey' = standard(key)
    /\ UNCHANGED <<rawCell, cellHeader, coercedValue>>
    /\ UNCHANGED <<varsReports, varsPdf, varsExport, varsText>>

\* report_processor.py lines 293-300: to_float is called on one cell
Coerce ==
    /\ rawLabel = "" /\ rawCell = None /\ cellHeader = None
    /\ \E val \in Cells :
           /\ rawCell' = val
           /\ cellHeader' = None
           /\ coercedValue' = to_float(val)
    /\ UNCHANGED <<rawLabel, canonKey>>
    /\ UNCHANGED <<varsReports, varsPdf, varsExport, varsText>>

\* report_processor.py lines 246-324 for a data row with the name Tower and
\* one metric cell: the value the row gives to the column of the cell
CoerceColumn ==
    /\ rawLabel = "" /\ rawCell = None /\ cellHeader = None
    /\ \E h \in {"cond", "ph", "temp", "live_atp"} : \E val \in Cells \ {None} :
           \E bound \in {systemValues(1, <<"system_name", h>>,
                                      [k \in {"system_name", h} |->
                                          IF k = h THEN val ELSE "Tower"])} :
               /\ rawCell' = val
               /\ cellHeader' = h
               /\ coercedValue' = CASE h = "cond" -> bound.cond
                                    [] h = "ph" -> bound.ph
                                    [] h = "temp" -> bound.temp
                                    [] OTHER -> bound.live_atp
    /\ UNCHANGED <<rawLabel, canonKey>>
    /\ UNCHANGED <<varsReports, varsPdf, varsExport, varsText>>

NextPure == Normalize \/ Coerce \/ CoerceColumn

SpecPure == InitPdf /\ [][NextPure]_vars

(***************************************************************************)
(* mssql_exporter.py as a state machine: a step is one run of the script,  *)
(* or a JSON file that the extractors add to the directory between runs.   *)
(***************************************************************************)
\* docx_process.py lines 68-73 (pdf_process.py main): a file is written
PutJson ==
    /\ Len(jsonDir) < MaxJson
    /\ \E t \in JsonTemplates :
           jsonDir' = Append(jsonDir,
                             [name |-> "doc" \o Char("123456789", Len(jsonDir) + 1) \o t.ext] @@ t)
    /\ UNCHANGED <<documents, dataTable, dataColumns, addedColumns, exports>>
    /\ UNCHANGED <<varsReports, varsPdf, rawLabel, canonKey, rawCell, cellHeader, coercedValue,
                   varsText>>

\* lines 64-217: one run.  hr_dir and pr_dir are the same directory (lines
\* 9-10), so that each loop over the two walks the files twice.  The first
\* run creates table data with the columns of params (line 123), a later one
\* adds the missing ones (line 138); close() drops what is not committed.
RunExport ==
    /\ exports < MaxExports
    /\ \E walk \in {jsonDir \o jsonDir} : \E params \in {params_set(walk)} :
           \E db \in {exportFiles([documents |-> documents, data |-> dataTable,
                                   saved |-> [documents |-> Len(documents),
                                              data |-> Len(dataTable)]],
                                  walk, params)} :
               /\ dataColumns' = dataColumns \cup params
               /\ addedColumns' = IF exports = 0 THEN addedColumns
                                  ELSE addedColumns \cup (params \ dataColumns)
               /\ documents' = SubSeq(db.documents, 1, db.saved.documents)
               /\ dataTable' = SubSeq(db.data, 1, db.saved.data)
    /\ exports' = exports + 1
    /\ UNCHANGED jsonDir
    /\ UNCHANGED <<varsReports, varsPdf, rawLabel, canonKey, rawCell, cellHeader, coercedValue,
                   varsText>>

NextExport == PutJson \/ RunExport

SpecExport == InitPdf /\ [][NextExport]_vars

(***************************************************************************)
(* get_table_from_page (pdf_process.py, lines 209-287).  A word is what    *)
(* extract_words gives: its text, x0, x1, top and bottom, here integers    *)
(* (top and bottom are distances from the top of the page).  The centre of *)
(* a column, a mean, is kept as the sum and the number of its x0s.         *)
(***************************************************************************)
\* the most words on a page
MaxWords == 4

\* the pages: up to MaxWords words, in reading order, on the places of two
\* lines of text (top 0 and 30, one word also at top 5) at five x0s; a word
\* is 10 wide and 10 high, the one at x0 100 of the first line has no height
\* and the one of the second line is blank
PageLayouts ==
    LET xs == <<0, 14, 28, 42, 100>>
        places == ({0, 30} \X (1..5)) \cup {<<5, 2>>}
        word(q) == [text |-> IF q = <<30, 5>> THEN " "
                             ELSE Char("abcde", q[2]) \o (IF q[1] = 0 THEN "1"
                                                          ELSE IF q[1] = 5 THEN "2" ELSE "3"),
                    x0 |-> xs[q[2]], x1 |-> xs[q[2]] + 10,
                    top |-> q[1], bottom |-> IF q = <<0, 5>> THEN q[1] ELSE q[1] + 10]
        RECURSIVE reading(_)
        reading(qs) ==
            IF qs = {} THEN <<>>
            ELSE LET q == CHOOSE a \in qs :
                              \A b \in qs : a[1] < b[1] \/ (a[1] = b[1] /\ a[2] <= b[2])
                 IN  <<word(q)>> \o reading(qs \ {q})
    IN  {reading(qs) : qs \in {c \in SUBSET places : Cardinality(c) <= MaxWords}}

\* lines 277-279 with the test of line 280 left out
slotAnyDistance(x, columns, median_height) ==
    LET dist(c) == IF x * columns[c][2] >= columns[c][1]
                   THEN x * columns[c][2] - columns[c][1]
                   ELSE columns[c][1] - x * columns[c][2]
    IN  CHOOSE c \in 1..Len(columns) :
            \A o \in 1..Len(columns) :
                /\ dist(c) * columns[o][2] <= dist(o) * columns[c][2]
                /\ o < c => dist(c) * columns[o][2] < dist(o) * columns[c][2]

\* lines 277-280: the column a cell at x goes to, the first of the nearest
\* centres, 0 when that centre is not nearer than twice the median height;
\* dist(c) is abs(x - col) times the number of x0s of the column
slot(x, columns, median_height) ==
    LET dist(c) == IF x * columns[c][2] >= columns[c][1]
                   THEN x * columns[c][2] - columns[c][1]
                   ELSE columns[c][1] - x * columns[c][2]
        idx == CHOOSE c \in 1..Len(columns) :
                   \A o \in 1..Len(columns) :
                       /\ dist(c) * columns[o][2] <= dist(o) * columns[c][2]
                       /\ o < c => dist(c) * columns[o][2] < dist(o) * columns[c][2]
    IN  IF dist(idx) < 2 * median_height * columns[idx][2] THEN idx ELSE 0

\* lines 210-287: the table returned (NoTable for None) and the locals
\* median_height, columns and, for each row group, row_cells
get_table_from_page(words) ==
    LET n == Len(words)
        height(i) == words[i].bottom - words[i].top
        heights == {i \in 1..n : height(i) > 0}
        \* line 216: sorted(heights)[len(heights) // 2]
        median_height ==
            IF heights = {} THEN 10
            ELSE height(CHOOSE i \in heights :
                            /\ Cardinality({j \in heights : height(j) < height(i)})
                                   <= Cardinality(heights) \div 2
                            /\ Cardinality(heights) \div 2
                                   < Cardinality({j \in heights : height(j) <= height(i)}))
        RECURSIVE sum(_)
        sum(S) == IF S = {} THEN 0 ELSE LET x == CHOOSE x \in S : TRUE IN x + sum(S \ {x})
        \* lines 219-229: an x0 opens a column when it is the first or at least
        \* 1.5 median heights after the x0 before it
        x0s == {words[i].x0 : i \in 1..n}
        opens == {x \in x0s : \A y \in x0s :
                                  y < x => \/ \E z \in x0s : y < z /\ z < x
                                           \/ 2 * (x - y) >= 3 * median_height}
        column(s) == {x \in x0s : x >= s /\ \A t \in opens : t > s => x < t}
        RECURSIVE ascending(_)
        ascending(S) ==
            IF S = {} THEN <<>>
            ELSE LET x == CHOOSE x \in S : \A y \in S : x <= y IN <<x>> \o ascending(S \ {x})
        \* lines 232-242: from the greatest top down, a group holds the tops less
        \* than two median heights under its first
        RECURSIVE groups(_)
        groups(tops) ==
            IF tops = {} THEN <<>>
            ELSE LET first == CHOOSE t \in tops : \A u \in tops : u <= t
                     group == {t \in tops : first - t < 2 * median_height}
                 IN  <<group>> \o groups(tops \ group)
        \* lines 247-257: the words of a group that are not blank, by x0
        RECURSIVE by_x0(_)
        by_x0(S) ==
            IF S = {} THEN <<>>
            ELSE LET i == CHOOSE i \in S :
                              \A j \in S : \/ words[i].x0 < words[j].x0
                                           \/ words[i].x0 = words[j].x0 /\ i <= j
                 IN  <<i>> \o by_x0(S \ {i})
        \* lines 258-272: a word opens a cell when it starts more than a median
        \* height after the end of the word before it; no text is ' ' (line 256),
        \* so that the texts are joined with ' '
        cells(row_words) ==
            LET starts == {j \in 1..Len(row_words) :
                              \/ j = 1
                              \/ words[row_words[j]].x0 - words[row_words[j - 1]].x1
                                     > median_height}
                end(j) == IF \E k \in starts : k > j
                          THEN (CHOOSE k \in starts :
                                    k > j /\ \A o \in starts : o > j => k <= o) - 1
                          ELSE Len(row_words)
                at == ascending(starts)
            IN  [c \in 1..Len(at) |->
                    [x |-> words[row_words[at[c]]].x0,
                     text |-> strip(joinSpace([k \in 1..(end(at[c]) - at[c] + 1) |->
                                                  words[row_words[at[c] + k - 1]].text]))]]
        \* lines 275-285
        row(columns, row_cells) ==
            [c \in 1..Len(columns) |->
                LET mine == SelectSeq(row_cells,
                                      LAMBDA cell : slot(cell.x, columns, median_height) = c)
                IN  IF mine = <<>> THEN None
                    ELSE joinSpace([k \in 1..Len(mine) |-> mine[k].text])]
        build(columns, row_cells) ==
            [table |-> [g \in 1..Len(row_cells) |-> row(columns, row_cells[g])],
             median_height |-> median_height,
             columns |-> columns,
             row_cells |-> row_cells]
        cellsOf(row_groups) ==
            [g \in 1..Len(row_groups) |->
                cells(by_x0({i \in 1..n : /\ words[i].top \in row_groups[g]
                                          /\ strip(words[i].text) # ""}))]
        columnsOf(first) ==
            [c \in 1..Len(first) |-> <<sum(column(first[c])), Cardinality(column(first[c]))>>]
    IN  IF words = <<>>
        THEN [table |-> NoTable, median_height |-> 0, columns |-> <<>>, row_cells |-> <<>>]
        ELSE build(columnsOf(ascending(opens)),
                   cellsOf(groups({words[i].top : i \in 1..n})))

(***************************************************************************)
(* The two text parsers of pdf_process.py as state machines: a step goes   *)
(* from the test of one while or for loop to the next test.  The lines are *)
(* those of line 152 / 294: stripped and not empty.  Indices are those of  *)
(* the source, from 0.                                                     *)
(***************************************************************************)
\* the longest list of lines given to a parser
MaxLines == 4

\* the lists of lines given to parse_table_from_text (table) and to
\* parse_vertical_table_from_text (vertical)
TextLines ==
    LET RECURSIVE upTo(_, _)
        upTo(words, n) ==
            IF n = 0 THEN {<<>>}
            ELSE LET shorter == upTo(words, n - 1)
                 IN  shorter \cup {<<w>> \o l : w \in words, l \in shorter}
    IN  [table |-> upTo({"1 Dist", "2 Boiler", "Loop", "8.1", "7", "-"}, MaxLines),
         vertical |-> upTo({"Sample ID", "pH", "Temp", "Range 6-9", "Tank", "8.1", "-"},
                           MaxLines)]

\* lines 171-172 with the cursor left where it is
skipRangeStay(i, cols) == i

\* lines 171-172: the cursor after a line that starts with Range
skipRange(i, cols) == i + 1 + Len(cols)

\* parse_table_from_text, lines 294-322
TableStep ==
    /\ \/ \* lines 294-296
          /\ pPc = "idle"
          /\ \E ls \in TextLines.table : pLines' = ls
          /\ pPc' = "line297"
          /\ UNCHANGED <<pCursor, pRow, pOut, pRead, pMark>>
       \/ \* line 297 is false: return table
          /\ pPc = "line297"
          /\ pCursor >= Len(pLines)
          /\ pPc' = "done"
          /\ UNCHANGED <<pLines, pCursor, pRow, pOut, pRead, pMark>>
       \/ \* lines 298-311, or 298-299 and 321
          /\ pPc = "line297"
          /\ pCursor < Len(pLines)
          /\ LET line == pLines[pCursor + 1]
                 others == {k \in 1..Len(line) : ~IsDigit(Char(line, k))}
                 digits == IF others = {} THEN Len(line)
                           ELSE (CHOOSE k \in others : \A j \in others : k <= j) - 1
                 \* re.match of '^\d+ ', '^\d+$' or '^\-$'
                 opens == \/ /\ digits >= 1
                             /\ (digits = Len(line) \/ Char(line, digits + 1) = " ")
                          \/ line = "-"
                 parts == reSplitSpaces(line)
                 tested == pCursor + 1 < Len(pLines)
                 named == /\ tested
                          /\ ~IsDigit(Char(pLines[pCursor + 2], 1))
                          /\ ~startswith(pLines[pCursor + 2], "-")
             IN  IF opens
                 THEN /\ pRow' = <<parts[1],
                                   IF Len(parts) > 1 THEN joinSpace(Tail(parts)) ELSE None>>
                                     \o (IF named THEN <<pLines[pCursor + 2]>> ELSE <<>>)
                      /\ pCursor' = IF named THEN pCursor + 2 ELSE pCursor + 1
                      /\ pRead' = IF tested /\ pCursor + 1 > pRead THEN pCursor + 1
                                  ELSE IF pCursor > pRead THEN pCursor ELSE pRead
                      /\ pPc' = "line313"
                 ELSE /\ pCursor' = pCursor + 1
                      /\ pRead' = IF pCursor > pRead THEN pCursor ELSE pRead
                      /\ UNCHANGED <<pRow, pPc>>
          /\ pMark' = [pMark EXCEPT !.outer = pCursor]
          /\ UNCHANGED <<pLines, pOut>>
       \/ \* lines 313-318, or 313 is false and 319
          /\ pPc = "line313"
          /\ LET tested == pCursor < Len(pLines)
                 \* the five patterns of lines 313-316 match a line that starts
                 \* with a digit, and the line "."
                 value == /\ tested
                          /\ \/ IsDigit(Char(pLines[pCursor + 1], 1))
                             \/ pLines[pCursor + 1] = "."
             IN  /\ pRead' = IF tested /\ pCursor > pRead THEN pCursor ELSE pRead
                 /\ IF value
                    THEN /\ pRow' = Append(pRow, pLines[pCursor + 1])
                         /\ pCursor' = pCursor + 1
                         /\ UNCHANGED <<pOut, pPc>>
                    ELSE /\ pOut' = Append(pOut, pRow)
                         /\ pPc' = "line297"
                         /\ UNCHANGED <<pRow, pCursor>>
          /\ UNCHANGED <<pLines, pMark>>
    /\ UNCHANGED <<pCols, pVals, pUsed, pWords, pCells>>
    /\ UNCHANGED <<varsReports, varsPdf, varsExport>>
    /\ UNCHANGED <<rawLabel, canonKey, rawCell, cellHeader, coercedValue>>

\* parse_vertical_table_from_text, lines 152-206
VerticalStep ==
    /\ \/ \* lines 152-154
          /\ pPc = "idle"
          /\ \E ls \in TextLines.vertical : pLines' = ls
          /\ pPc' = "line158"
          /\ UNCHANGED <<pCursor, pCols, pRow, pVals, pOut, pRead, pUsed, pMark>>
       \/ \* line 158 is false: return systems
          /\ pPc = "line158"
          /\ pCursor >= Len(pLines)
          /\ pPc' = "done"
          /\ UNCHANGED <<pLines, pCursor, pCols, pRow, pVals, pOut, pRead, pUsed, pMark>>
       \/ \* lines 159-161, or 159 and 205
          /\ pPc = "line158"
          /\ pCursor < Len(pLines)
          /\ pCursor' = pCursor + 1
          /\ pRead' = IF pCursor > pRead THEN pCursor ELSE pRead
          /\ pMark' = [pMark EXCEPT !.outer = pCursor]
          /\ IF pLines[pCursor + 1] = "Sample ID"
             THEN pCols' = <<>> /\ pPc' = "line162"
             ELSE UNCHANGED <<pCols, pPc>>
          /\ UNCHANGED <<pLines, pRow, pVals, pOut, pUsed>>
       \/ \* lines 162-164, or 162 is false and 165-167
          /\ pPc = "line162"
          /\ LET tested == pCursor < Len(pLines)
                 column == /\ tested
                           /\ \E c \in 1..Len(possible_cols) :
                                  possible_cols[c] = pLines[pCursor + 1]
             IN  /\ pRead' = IF tested /\ pCursor > pRead THEN pCursor ELSE pRead
                 /\ IF column
                    THEN /\ pCols' = Append(pCols, pLines[pCursor + 1])
                         /\ pCursor' = pCursor + 1
                         /\ UNCHANGED <<pPc, pMark>>
                    ELSE IF pCols = <<>>
                    THEN /\ pCursor' = pCursor + 1
                         /\ pPc' = "line158"
                         /\ UNCHANGED <<pCols, pMark>>
                    ELSE /\ pPc' = "line169"
                         /\ pMark' = [pMark EXCEPT !.body = pCursor]
                         /\ UNCHANGED <<pCols, pCursor>>
          /\ UNCHANGED <<pLines, pRow, pVals, pOut, pUsed>>
       \/ \* line 169 is false: back to line 158
          /\ pPc = "line169"
          /\ pCursor >= Len(pLines)
          /\ pPc' = "line158"
          /\ UNCHANGED <<pLines, pCursor, pCols, pRow, pVals, pOut, pRead, pUsed, pMark>>
       \/ \* lines 170-173, or 170 and 175
          /\ pPc = "line169"
          /\ pCursor < Len(pLines)
          /\ pRead' = IF pCursor > pRead THEN pCursor ELSE pRead
          /\ pMark' = [pMark EXCEPT !.inner = pCursor]
          /\ IF startswith(pLines[pCursor + 1], "Range")
             THEN /\ pCursor' = skipRange(pCursor, pCols)
                  /\ UNCHANGED <<pRow, pPc>>
             ELSE /\ pRow' = <<>>
                  /\ pPc' = "line176"
                  /\ UNCHANGED pCursor
          /\ UNCHANGED <<pLines, pCols, pVals, pOut, pUsed>>
       \/ \* lines 176-178, or 176 is false and 179-192
          /\ pPc = "line176"
          /\ LET tested == pCursor < Len(pLines)
                 line == pLines[pCursor + 1]
                 dot == find(line, ".", 1)
                 ip == IF dot = 0 THEN line ELSE SubSeq(line, 1, dot - 1)
                 fp == IF dot = 0 THEN "" ELSE SubSeq(line, dot + 1, Len(line))
                 \* line 176: re.match(r'^\d+\.?\d*$|^\-*$|^\.$|^0$', line)
                 value == \/ ip # "" /\ AllDigits(ip) /\ AllDigits(fp)
                          \/ \A k \in 1..Len(line) : Char(line, k) = "-"
                          \/ line = "."
                 label == tested /\ ~value /\ ~startswith(line, "Range")
             IN  /\ pRead' = IF tested /\ pCursor > pRead THEN pCursor ELSE pRead
                 /\ IF label
                    THEN /\ pRow' = Append(pRow, [at |-> pCursor, text |-> strip(line)])
                         /\ pCursor' = pCursor + 1
                         /\ UNCHANGED <<pVals, pPc>>
                    ELSE IF pRow = <<>>
                    THEN /\ pCursor' = pCursor + 1
                         /\ pPc' = "line169"
                         /\ UNCHANGED <<pRow, pVals>>
                    ELSE /\ pVals' = <<>>
                         /\ pPc' = "line193"
                         /\ UNCHANGED <<pRow, pCursor>>
          /\ UNCHANGED <<pLines, pCols, pOut, pUsed, pMark>>
       \/ \* lines 193-198, or the loop of 193 is left and 182-190, 199-203
          /\ pPc = "line193"
          /\ IF Len(pVals) < Len(pCols) /\ pCursor < Len(pLines)
             THEN /\ pVals' = Append(pVals, [at |-> pCursor,
                                             text |-> IF pLines[pCursor + 1] = "-" THEN None
                                                      ELSE strip(pLines[pCursor + 1])])
                  /\ pCursor' = pCursor + 1
                  /\ pRead' = IF pCursor > pRead THEN pCursor ELSE pRead
                  /\ UNCHANGED <<pOut, pUsed, pPc>>
             ELSE /\ LET possible_types ==
                             <<"Cooling Tower (Mo)", "CW Nitrite", "MTW Nitrite", "Dist",
                               "Boiler", "Softener", "Condensate">>
                         sample_id == strip(joinSpace([k \in 1..Len(pRow) |-> pRow[k].text]))
                         found == {t \in 1..Len(possible_types) :
                                      contains(sample_id, possible_types[t])}
                         type_ == IF found = {} THEN ""
                                  ELSE possible_types[CHOOSE t \in found :
                                                          \A u \in found : t <= u]
                         name == IF found = {} THEN sample_id
                                 ELSE strip(replace(sample_id, type_, ""))
                         n == Len(pVals)
                         system_data ==
                             [c \in {pCols[k] : k \in 1..n} |->
                                 pVals[CHOOSE k \in 1..n :
                                           pCols[k] = c
                                           /\ \A j \in (k + 1)..n : pCols[j] # c].text]
                             @@ [c \in {"System Name", "System Type"} |->
                                    IF c = "System Name" THEN name ELSE type_]
                     IN  pOut' = Append(pOut, system_data)
                  /\ pUsed' = pUsed \cup {<<pRow[k].at, "id">> : k \in 1..Len(pRow)}
                                    \cup {<<pVals[k].at, "value">> : k \in 1..Len(pVals)}
                  /\ pPc' = "line169"
                  /\ UNCHANGED <<pVals, pCursor, pRead>>
          /\ UNCHANGED <<pLines, pCols, pRow, pMark>>
    /\ UNCHANGED <<pWords, pCells>>
    /\ UNCHANGED <<varsReports, varsPdf, varsExport>>
    /\ UNCHANGED <<rawLabel, canonKey, rawCell, cellHeader, coercedValue>>

\* get_table_from_page is called on a page and returns
ClusterStep ==
    /\ pPc = "idle"
    /\ \E page \in PageLayouts : \E grid \in {get_table_from_page(page)} :
           /\ pWords' = page
           /\ pOut' = grid.table
           /\ pCells' = [median_height |-> grid.median_height, columns |-> grid.columns,
                         row_cells |-> grid.row_cells]
    /\ pPc' = "done"
    /\ UNCHANGED <<pLines, pCursor, pCols, pRow, pVals, pRead, pUsed, pMark>>
    /\ UNCHANGED <<varsReports, varsPdf, varsExport>>
    /\ UNCHANGED <<rawLabel, canonKey, rawCell, cellHeader, coercedValue>>

NextParse == TableStep \/ VerticalStep \/ ClusterStep

SpecParse == InitPdf /\ [][NextParse]_vars /\ WF_vars(NextParse)

(***************************************************************************)
(* Properties of process_reports.                                          *)
(***************************************************************************)
\* C1: over an unchanged directory and the same database, a second run writes
\* no duplicate row, and the row counts of reports and of systems after it
\* equal those after the first run.
C1_SecondRunSameCounts ==
    /\ Cardinality({reports[i].filename : i \in 1..Len(reports)}) = Len(reports)
    /\ Cardinality({<<systems[i].report_id, systems[i].system_name>> : i \in 1..Len(systems)})
           = Len(systems)
    /\ \A i \in 1..(Len(ends) - 1) :
           (ends[i].outcome # "interrupted" /\ ends[i + 1].outcome # "interrupted")
               => /\ ends[i + 1].reports = ends[i].reports
                  /\ ends[i + 1].systems = ends[i].systems

\* C2: after any sequence of runs, interrupted ones included, no two rows of
\* reports share a filename and no two rows of systems share the pair
\* (report_id, system_name).  (insertSystem never appends, so that the part
\* on systems is about a table that stays empty.)
C2_UniqueKeys ==
    /\ \A i, j \in 1..Len(reports) : reports[i].filename = reports[j].filename => i = j
    /\ \A i, j \in 1..Len(systems) :
           (systems[i].report_id = systems[j].report_id
            /\ systems[i].system_name = systems[j].system_name) => i = j

\* a second run has gone through a directory of which an interrupted first run
\* had committed a document, and has added a document of its own
C2_RerunAfterInterrupt ==
    /\ pc = "idle" /\ outcome \in {"ok", "exception"} /\ runs = 2 /\ Len(ends) = 2
    /\ ends[1].outcome = "interrupted" /\ ends[1].reports >= 1
    /\ Len(reports) > ends[1].reports

C4_FailedNotIngested ==
    (pc = "idle" /\ outcome \in {"ok", "exception"}) => \A n \in failed : RowsWithFilename(reports, n) = {}

\* C5: whatever a document holds, the run goes on to every later file of the
\* directory: a run that was not killed has reached every listed file.
C5_EveryFileReached ==
    (pc = "idle" /\ outcome \in {"ok", "exception"}) => visited = 1..Len(files)

\* C6: every data row of a newly inserted document that resolves to a
\* non-empty system name not yet stored for the document has exactly one
\* committed systems row.
C6_OneRowPerSystem ==
    \A e \in expected : Cardinality(RowsWithSystem(systems, e[1], e[2])) = 1

\* C7: the document with text "Facility: Example Park", "Date: 5/1/2024" and
\* the table of header # / System Type / System Name / Cond. / pH and row
\* 1 / Dist / Cold Loop / 850 / 8.1 gives one reports row (Example Park,
\* 2024-05-01) and one systems row (Dist, Cold Loop, cond 850.0, pH 8.1).
C7_ExampleDocument ==
    (pc = "idle" /\ outcome = "ok" /\ dir = <<FileOf(1, DocExample)>>) =>
        /\ Len(reports) = 1
        /\ reports[1].facility = "Example Park"
        /\ reports[1].date = "2024-05-01"
        /\ Len(systems) = 1
        /\ contains(systems[1].system_name, "Dist")
        /\ contains(systems[1].system_name, "Cold Loop")
        /\ systems[1].cond = <<850, 0>>
        /\ systems[1].ph = <<81, 1>>

(***************************************************************************)
(* Properties of extract_data_from_pdf.                                    *)
(***************************************************************************)
\* C8: in positional-fallback mode a row of a Dist system with at least five
\* trailing values gets the first three as Cond. / pH / Temp, the last two as
\* Free / Total Chlorine and the values in between, in order, as the first
\* of the eight middle columns; the row 2 / Dist / Hot Loop has twelve
\* trailing values, so that seven of them go to P Alk ... SO2 and Mo is left
\* unset.
C8_DistByPosition ==
    \A i \in {x \in 1..Len(pdfSystems) : origin[x].mode = "fallback"} :
        LET d == pdfSystems[i]
            v == trailingValues(origin[i].row)
            n == Len(v)
        IN  /\ (Truthy(d["System Type"]) /\ contains(d["System Type"], "Dist") /\ n >= 5) =>
                   /\ d["Cond."] = v[1] /\ d["pH"] = v[2] /\ d["Temp"] = v[3]
                   /\ d["Free Chlorine"] = v[n - 1] /\ d["Total Chlorine"] = v[n]
                   /\ \A k \in 1..Len(middle_cols) :
                          IF k <= n - 5
                          THEN get(d, middle_cols[k], None) = v[3 + k]
                          ELSE middle_cols[k] \notin DOMAIN d
            /\ origin[i].row = HotLoopRow =>
                   /\ n = 12
                   /\ d["Cond."] = "900" /\ d["pH"] = "7.9" /\ d["Temp"] = "22"
                   /\ d["P Alk"] = "150" /\ d["M Alk"] = "50" /\ d["Chloride"] = "5"
                   /\ d["Hardness"] = "3" /\ d["Calcium"] = "0.2" /\ d["PO4"] = "0.5"
                   /\ d["SO2"] = "0.1" /\ "Mo" \notin DOMAIN d
                   /\ d["Free Chlorine"] = "1.2" /\ d["Total Chlorine"] = "0.8"

\* the row 2 / Dist / Hot Loop has been taken by position and returned
C8_HotLoopReturned ==
    /\ pcPdf = "returned"
    /\ \E i \in {x \in 1..Len(pdfSystems) : origin[x].mode = "fallback"} :
           origin[i].row = HotLoopRow /\ extracted_data.systems[i]["Cond."] = "900"

\* C8 as stated: the row 2 / Dist / Hot Loop gives Cond. 900, pH 7.9, Temp 22,
\* its next eight values to the eight middle columns and its last two values
\* to Free / Total Chlorine.
C8_EightMiddleValues ==
    \A i \in {x \in 1..Len(pdfSystems) : origin[x].mode = "fallback"} :
        origin[i].row = HotLoopRow =>
            /\ pdfSystems[i]["Cond."] = "900"
            /\ pdfSystems[i]["pH"] = "7.9"
            /\ pdfSystems[i]["Temp"] = "22"
            /\ \A k \in 1..8 : middle_cols[k] \in DOMAIN pdfSystems[i]
            /\ pdfSystems[i]["Free Chlorine"] = "1.2"
            /\ pdfSystems[i]["Total Chlorine"] = "0.8"

\* C9: a row whose first cell is "-" gives no system in exact-header mode; in
\* positional-fallback mode it is taken as an index and gives a system when it
\* has a system type or a system name.
C9_DashRowByMode ==
    /\ \A i \in {x \in 1..Len(pdfSystems) : origin[x].mode = "exact"} : origin[i].row[1] # "-"
    /\ \A p \in 1..Len(seen) :
           seen[p].mode = "fallback" =>
               \A j \in 1..Len(seen[p].table) :
                   LET row == seen[p].table[j]
                   IN  (row # <<>> /\ row[1] = "-" /\ hasTypeOrName(fallbackData(row))) =>
                           \E i \in {x \in 1..Len(pdfSystems) : origin[x].mode = "fallback"} :
                               origin[i].page = p /\ origin[i].row = row

\* a table with a "-" row has been taken in exact-header mode and has given a
\* system, and a table with a "-" row has been taken by position
C9_DashRowsSeen ==
    /\ \E p \in 1..Len(seen) :
           /\ seen[p].mode = "exact"
           /\ \E j \in 2..Len(seen[p].table) : seen[p].table[j] = Dash21Row
           /\ \E i \in {x \in 1..Len(pdfSystems) : origin[x].mode = "exact"} : origin[i].page = p
    /\ \E p \in 1..Len(seen) :
           /\ seen[p].mode = "fallback"
           /\ \E j \in 2..Len(seen[p].table) : seen[p].table[j] = NitriteDashRow

\* C9 as stated: no system comes from a row whose first cell is "-", in
\* either mode.
C9_NoDashRow ==
    \A i \in 1..Len(pdfSystems) : origin[i].row[1] # "-"

\* C10: a located table is taken in exact-header mode exactly when each of
\* its non-empty rows has 21 cells; an empty row is not counted and does not
\* force the positional fallback.
C10_ModeByNonEmptyRows ==
    \A p \in 1..Len(seen) :
        seen[p].mode # "none" =>
            (seen[p].mode = "exact" <=>
                \A j \in 1..Len(seen[p].table) :
                    seen[p].table[j] # <<>> => Len(seen[p].table[j]) = 21)

\* a table with an empty row has been taken in exact-header mode, and a table
\* with a row of another length by position
C10_BothModesSeen ==
    /\ \E p \in 1..Len(seen) :
           /\ seen[p].mode = "exact"
           /\ \E j \in 1..Len(seen[p].table) : seen[p].table[j] = <<>>
           /\ \E i \in {x \in 1..Len(pdfSystems) : origin[x].mode = "exact"} : origin[i].page = p
    /\ \E p \in 1..Len(seen) :
           /\ seen[p].mode = "fallback"
           /\ \E j \in 1..Len(seen[p].table) : Len(seen[p].table[j]) \notin {0, 21}

\* C10 as stated: exact-header mode only when every row has 21 cells; one row
\* of another length, an empty row included, forces the positional fallback.
C10_ModeByAllRows ==
    \A p \in 1..Len(seen) :
        seen[p].mode = "exact" =>
            \A j \in 1..Len(seen[p].table) : Len(seen[p].table[j]) = 21

(***************************************************************************)
(* Properties of the table location of extract_data_from_pdf.              *)
(***************************************************************************)
\* C11: on every page the strategies are called in the order ruled lines,
\* text alignment, word clustering, line pattern, vertical run, each at most
\* once.  The first is always called; the second and third are called exactly
\* when every earlier one gave no table or fewer than two rows; the line
\* pattern is called exactly when the first three failed and the page has a
\* text (extract_text is not None); the vertical parser exactly when the first
\* four failed and the text is not empty.  The first strategy that gives two
\* rows or more supplies the table of the page.  A page on which every
\* strategy fails adds nothing to systems and leaves the loop over the pages
\* running.
C11_StrategiesInOrder ==
    [][Len(seen') = Len(seen) + 1 =>
          LET s == seen'[Len(seen')]
              short1 == Len(s.input.ruled) < 2
              short2 == Len(s.input.aligned) < 2
              short3 == Len(s.input.clustered) < 2
              hasText == s.input.page_text # None
              r4 == IF hasText THEN parse_table_from_text(s.input.page_text) ELSE NoTable
              called == {s.tried[k] : k \in 1..Len(s.tried)}
          IN  /\ s.tried = SelectSeq(Strategies, LAMBDA x : x \in called)
              /\ Strategies[1] \in called
              /\ Strategies[2] \in called <=> short1
              /\ Strategies[3] \in called <=> (short1 /\ short2)
              /\ Strategies[4] \in called <=> (short1 /\ short2 /\ short3 /\ hasText)
              /\ Strategies[5] \in called <=>
                     (short1 /\ short2 /\ short3 /\ hasText /\ Len(r4) < 2
                         /\ s.input.page_text # "")
              /\ s.table = (IF ~short1 THEN s.input.ruled
                            ELSE IF ~short2 THEN s.input.aligned
                            ELSE IF ~short3 THEN s.input.clustered
                            ELSE IF Len(r4) >= 2 THEN r4
                            ELSE NoTable)
              /\ (/\ s.table = NoTable
                  /\ Strategies[5] \in called =>
                         parse_vertical_table_from_text(s.input.page_text) = <<>>)
                     => pdfSystems' = pdfSystems /\ pcPdf' = "pages"]_vars

\* a page on which the five strategies were called and failed has been
\* followed by a page whose table the line pattern supplied, and that page
\* has given a system
C11_FailedPageThenPatternPage ==
    /\ Len(seen) = 2
    /\ seen[1].tried = Strategies
    /\ seen[1].table = NoTable
    /\ \A i \in 1..Len(origin) : origin[i].page # 1
    /\ Len(seen[2].tried) = 4
    /\ seen[2].table = parse_table_from_text(PatternText)
    /\ \E i \in 1..Len(origin) : origin[i].page = 2

\* C11 as stated: on every page a strategy is called exactly when every
\* earlier one gave no table or fewer than two rows.
C11_CalledOnEveryEarlierFailure ==
    \A p \in 1..Len(seen) :
        LET s == seen[p]
            short1 == Len(s.input.ruled) < 2
            short2 == Len(s.input.aligned) < 2
            short3 == Len(s.input.clustered) < 2
            r4 == IF s.input.page_text # None THEN parse_table_from_text(s.input.page_text)
                  ELSE NoTable
            called == {s.tried[k] : k \in 1..Len(s.tried)}
        IN  /\ Strategies[2] \in called <=> short1
            /\ Strategies[3] \in called <=> (short1 /\ short2)
            /\ Strategies[4] \in called <=> (short1 /\ short2 /\ short3)
            /\ Strategies[5] \in called <=> (short1 /\ short2 /\ short3 /\ Len(r4) < 2)

\* C12: every dict of systems, while the pages are gone through and in the
\* dict returned, whether made in exact-header mode, by position or by the
\* vertical parser, has a non-empty System Type or a non-empty System Name.
C12_TypeOrNamePresent ==
    \A list \in {pdfSystems, extracted_data.systems} :
        \A i \in 1..Len(list) :
            \/ "System Type" \in DOMAIN list[i] /\ list[i]["System Type"] \notin {None, ""}
            \/ "System Name" \in DOMAIN list[i] /\ list[i]["System Name"] \notin {None, ""}

\* the dict returned holds a dict made by position from a table that also had
\* a row without type and name, and a dict of the vertical parser whose name
\* is empty
C12_ReturnedFromFallbackAndVertical ==
    /\ pcPdf = "returned"
    /\ Len(extracted_data.systems) = Len(origin)
    /\ \E p \in 1..Len(seen) :
           /\ seen[p].mode = "fallback"
           /\ \E j \in 1..Len(seen[p].table) : seen[p].table[j] = UntypedRow
           /\ \E i \in 1..Len(origin) : origin[i].page = p
    /\ \E i \in 1..Len(origin) :
           /\ origin[i].mode = "vertical"
           /\ extracted_data.systems[i]["System Name"] = ""

(***************************************************************************)
(* Properties of the column normalizer and of the value coercer.           *)
(***************************************************************************)
\* C13: the normalizer (clean_column, then the lookup in column_mapping with
\* the lowercase fallback) returns every value of column_mapping unchanged.
C13_CanonicalKeyUnchanged ==
    rawLabel \in {column_mapping[k] : k \in DOMAIN column_mapping} => canonKey = rawLabel

\* C14: a key of column_mapping is normalized to its canonical key, and so
\* to the same key as every other key of column_mapping with that value.
C14_SynonymsAgree ==
    rawLabel \in DOMAIN column_mapping =>
        /\ canonKey = column_mapping[rawLabel]
        /\ \A k \in DOMAIN column_mapping :
               column_mapping[k] = column_mapping[rawLabel] => standard(k) = canonKey

\* C15: to_float returns None for None, for the empty string and for a cell
\* without any digit, '.' or '-'.  When the digits, dots and minus signs of
\* the cell, in their order, form a number (an optional leading '-', then
\* digits with at most one '.', at least one digit) it returns that number;
\* when they do not it returns None.  "123.45 mg/L" gives 123.45 and "OK"
\* gives None.
C15_ToFloatContract ==
    cellHeader = None =>
        LET chars == IF rawCell = None THEN <<>>
                     ELSE [i \in 1..Len(rawCell) |-> Char(rawCell, i)]
            rest == SelectSeq(chars, LAMBDA c : c \in Digits \cup {".", "-"})
            signed == rest # <<>> /\ rest[1] = "-"
            body == IF signed THEN Tail(rest) ELSE rest
            dots == {i \in 1..Len(body) : body[i] = "."}
            figures == SelectSeq(body, LAMBDA c : c \in Digits)
            number == /\ \A i \in 1..Len(body) : body[i] # "-"
                      /\ Cardinality(dots) <= 1
                      /\ figures # <<>>
            places == IF dots = {} THEN 0 ELSE Len(body) - (CHOOSE i \in dots : TRUE)
            RECURSIVE pow10(_)
            pow10(n) == IF n = 0 THEN 1 ELSE 10 * pow10(n - 1)
        IN  /\ (rawCell \in {None, ""} \/ rest = <<>>) => coercedValue = NoFloat
            /\ (rest # <<>> /\ ~number) => coercedValue = NoFloat
            /\ (rest # <<>> /\ number) =>
                   /\ coercedValue # NoFloat
                   /\ coercedValue[2] \in 0..places
                   /\ coercedValue[1] * pow10(places - coercedValue[2])
                          = (IF signed THEN 0 - atoi(join(figures)) ELSE atoi(join(figures)))
                   /\ coercedValue[2] > 0 => coercedValue[1] % 10 # 0
            /\ rawCell = "123.45 mg/L" => coercedValue = <<12345, 2>>
            /\ rawCell = "OK" => coercedValue = NoFloat

\* to_float has been called on "123.45 mg/L" and has returned 123.45
C15_UnitStripped ==
    rawCell = "123.45 mg/L" /\ cellHeader = None /\ coercedValue = <<12345, 2>>

\* C16: in every metric column, a cell that holds a '|' is coerced to the
\* number of its first component alone.
C16_FirstComponentInEveryColumn ==
    (cellHeader # None /\ contains(rawCell, "|")) =>
        coercedValue = to_float(strip(split(rawCell, "|")[1]))

(***************************************************************************)
(* Properties of the directory walk of process_reports.                    *)
(***************************************************************************)
\* C17: a file of the directory whose extension is neither .docx nor .pdf,
\* whose size is zero or that the extraction library cannot open has no row
\* in reports, and no row of systems belongs to it; when the loop over the
\* files is at such a file, the run goes on to the next file with both tables
\* unchanged, unless it is interrupted from outside.
C17_UnsupportedFileSkipped ==
    [][/\ \A i \in 1..Len(dir) :
              (\/ ~(endswith(lower(dir[i].name), ".docx") \/ endswith(lower(dir[i].name), ".pdf"))
               \/ dir[i].size = 0
               \/ ~dir[i].readable)
                  => /\ \A j \in 1..Len(reports') : reports'[j].filename # dir[i].name
                     /\ \A k \in 1..Len(systems') :
                            /\ systems'[k].report_id \in 1..Len(reports')
                            /\ reports'[systems'[k].report_id].filename # dir[i].name
       /\ (/\ pc = "file"
           /\ fileIdx <= Len(files)
           /\ files[fileIdx].size = 0 \/ ~files[fileIdx].readable)
              => \/ outcome' = "interrupted" /\ Len(ends') = Len(ends) + 1
                 \/ /\ pc' = "file"
                    /\ fileIdx' = fileIdx + 1
                    /\ reports' = reports
                    /\ systems' = systems]_vars

\* a run over a directory of a file that cannot be opened and the example
\* document has ended without exception, with a reports row for the example
\* document only
C17_RunPastCorruptFile ==
    /\ Len(dir) = 2
    /\ dir[1].size # 0 /\ ~dir[1].readable
    /\ dir[2].text = ExampleText
    /\ pc = "idle"
    /\ outcome = "ok"
    /\ Len(reports) = 1
    /\ reports[1].filename = dir[2].name

(***************************************************************************)
(* Properties of mssql_exporter.                                           *)
(***************************************************************************)
\* C18: after a run, table data has a column for the normalized key of every
\* metric key of every dict of every JSON file read, the keys that no earlier
\* run had seen included; and every dict that the loop takes (a dict of
\* systems that is no header row and has a type and a name, a dict of
\* measurements after the first that has a name), in a file with a facility,
\* has got a row in this run that holds each of its values under the
\* normalized key, whether or not the column existed before the run.
C18_EveryKeyHasColumn ==
    [][exports' = exports + 1 =>
          \A i \in 1..Len(jsonDir) :
              LET f == jsonDir[i]
                  base == IF f.list = "systems" THEN {"#", "System Type", "System Name"}
                          ELSE {"distribution"}
                  nameKey == IF f.list = "systems" THEN "System Name" ELSE "distribution"
                  taken(j) ==
                      LET entry == f.entries[j]
                      IN  IF f.list = "systems"
                          THEN /\ "System Type" \in DOMAIN entry
                               /\ "System Name" \in DOMAIN entry
                               /\ entry["System Type"] \notin {None, "-", "System Type"}
                               /\ entry["System Name"] # None
                          ELSE /\ j > 1
                               /\ "distribution" \in DOMAIN entry
                               /\ entry["distribution"] \notin {None, "", "Water Samples"}
              IN  (endswith(lower(f.name), ".json") /\ f.loads) =>
                      \A j \in 1..Len(f.entries) :
                          /\ \A key \in DOMAIN f.entries[j] \ base :
                                 standardOf[key] \in dataColumns'
                          /\ (f.facility # None /\ taken(j)) =>
                                 \E r \in (Len(dataTable) + 1)..Len(dataTable') :
                                     /\ documents'[dataTable'[r].document_id].filename = f.name
                                     /\ dataTable'[r].system_name = f.entries[j][nameKey]
                                     /\ \A key \in DOMAIN f.entries[j] \ base :
                                            f.entries[j][key] \notin {None, ""} =>
                                                dataTable'[r].metrics[standardOf[key]]
                                                    = f.entries[j][key]]_vars

\* a second run has added the column turbidity_ntu to a table data that the
\* first run had created without it, and a row holds the value 3 in it
C18_ColumnAddedByLaterRun ==
    /\ exports = 2
    /\ "turbidity_ntu" \in addedColumns
    /\ "conductivity" \in dataColumns \ addedColumns
    /\ \E r \in 1..Len(dataTable) :
           /\ "turbidity_ntu" \in DOMAIN dataTable[r].metrics
           /\ dataTable[r].metrics["turbidity_ntu"] = "3"

\* C19: no two rows of documents have the same filename, after one run and
\* after a second run over the same files.
C19_UniqueFilename ==
    \A i, j \in 1..Len(documents) : i # j => documents[i].filename # documents[j].filename

(***************************************************************************)
(* Properties of the positional fallback.                                  *)
(***************************************************************************)
\* C20: in positional-fallback mode a row with an index in its first cell
\* that has neither a system type nor a system name gives no system; a row
\* that has one of them and whose type contains neither "Dist" nor "Nitrite"
\* is not dropped: it gives a system that holds its index, type and name and
\* no metric.
C20_OtherTypeKeptWithoutMetrics ==
    \A p \in 1..Len(seen) :
        seen[p].mode = "fallback" =>
            \A j \in 1..Len(seen[p].table) :
                LET row == seen[p].table[j]
                    type == IF Len(row) > 1 /\ row[2] # None THEN strip(row[2]) ELSE ""
                    name == IF Len(row) > 2 /\ row[3] # None THEN strip(row[3]) ELSE ""
                    from == {i \in 1..Len(origin) : origin[i].page = p /\ origin[i].row = row}
                IN  (row # <<>> /\ row[1] # None /\ (row[1] = "-" \/ (row[1] # "" /\ AllDigits(row[1]))))
                        => /\ (type = "" /\ name = "") => from = {}
                           /\ (/\ type # "" \/ name # ""
                               /\ ~contains(type, "Dist")
                               /\ ~contains(type, "Nitrite"))
                                  => /\ from # {}
                                     /\ \A i \in from :
                                            /\ DOMAIN pdfSystems[i]
                                                   = {"#", "System Type", "System Name"}
                                            /\ pdfSystems[i]["#"] = row[1]

\* the row 2 / Boiler / Steam with three values has been taken by position
\* and is in the dict returned, and a table with the row without type and
\* name has been taken by position
C20_BoilerRowReturned ==
    /\ pcPdf = "returned"
    /\ \E i \in 1..Len(origin) :
           /\ origin[i].mode = "fallback"
           /\ origin[i].row = <<"2", "Boiler", "Steam", "2500", "11.0", "40">>
           /\ extracted_data.systems[i]["System Type"] = "Boiler"
    /\ \E p \in 1..Len(seen) :
           /\ seen[p].mode = "fallback"
           /\ \E j \in 1..Len(seen[p].table) : seen[p].table[j] = UntypedRow

\* C20 as stated: every system made in positional-fallback mode has a type
\* that contains "Dist" or "Nitrite".
C20_OnlyDistAndNitrite ==
    \A i \in 1..Len(pdfSystems) :
        origin[i].mode = "fallback" =>
            /\ pdfSystems[i]["System Type"] # None
            /\ \/ contains(pdfSystems[i]["System Type"], "Dist")
               \/ contains(pdfSystems[i]["System Type"], "Nitrite")

(***************************************************************************)
(* Properties of the text parsers.                                         *)
(***************************************************************************)
\* C21: in the vertical parser under N columns, a line that starts with Range
\* and comes after the column names, and the N lines after it, are put into
\* no dict: into no sample id and into no value.
C21_RangeBlockSkipped ==
    \A u \in pUsed :
        ~\E r \in pMark.body..u[1] :
            /\ startswith(pLines[r + 1], "Range")
            /\ u[1] <= r + Len(pCols)

\* C26: in parse_table_from_text, when no line is a bare index or a dash, each
\* line made of digits, a space and text opens a row of its own: at the test
\* of line 297 the table holds one row for each such line before the cursor,
\* and none of its rows holds such a line as a value.
C26_IndexLineStartsRow ==
    LET indexed(line) ==
            \E d \in 1..(Len(line) - 2) :
                AllDigits(SubSeq(line, 1, d)) /\ Char(line, d + 1) = " "
    IN  (/\ pPc = "line297"
         /\ \A k \in 1..Len(pLines) : pLines[k] # "-" /\ ~AllDigits(pLines[k]))
            => /\ Len(pOut) = Cardinality({k \in 1..pCursor : indexed(pLines[k])})
               /\ \A j \in 1..Len(pOut) : \A c \in 3..Len(pOut[j]) : ~indexed(pOut[j][c])

\* C30: both parsers return on every list of lines.  A pass through the body
\* of a loop moves the cursor forward: a step that stays at the test of an
\* inner loop, and a step that comes back to the test of line 297, 158 or 169
\* after a pass through its body, leave the cursor past where the pass
\* began.  No index at or past the end of lines is read.
C30_CursorAdvancesToReturn ==
    /\ [][/\ (pPc' = pPc /\ pPc \in {"line313", "line162", "line176", "line193"})
                => pCursor' > pCursor
          /\ (pPc' \in {"line297", "line158"} /\ pPc # "idle")
                => pCursor' > pMark'.outer
          /\ (pPc' = "line169" /\ pPc \in {"line169", "line176", "line193"})
                => pCursor' > pMark'.inner]_vars
    /\ [](pRead < Len(pLines))
    /\ <>(pPc = "done")

\* the vertical parser has returned after a Range line under its columns put
\* the cursor past the end of lines
C30_ReturnedPastTheEnd ==
    /\ pPc = "done"
    /\ pCols # <<>>
    /\ pCursor > Len(pLines)
    /\ pRead = Len(pLines) - 1

(***************************************************************************)
(* Properties of the header fields and of the rows of process_reports.     *)
(***************************************************************************)
\* C22: the chemist of every row of reports is a name: that of a pattern of
\* lines 194-204 or, when none matches, the default name; never '' or None.
C22_ChemistNeverEmpty ==
    \A i \in 1..Len(reports) : reports[i].chemist \notin {"", None}

\* C24: for the file whose rows are being assembled, the dict d of a data row
\* holds the value of cell k under the normalized header of cell k of the
\* header row, for every k, be the header cell empty or not (for a header
\* that occurs twice, for its last cell).
C24_CellUnderItsHeader ==
    pc = "rows" =>
        \A table \in {tablesOf(files[fileIdx])[t] : t \in 1..Len(tablesOf(files[fileIdx]))} :
            (Len(table) >= 2 /\ relevantHeaders(table[1])) =>
                \A r \in 2..Len(table) : \A k \in 1..Len(table[1]) :
                    (/\ anyCell(table[r])
                     /\ k <= Len(table[r])
                     /\ \A j \in (k + 1)..Len(table[1]) :
                            normalizeHeader(table[1][j]) # normalizeHeader(table[1][k]))
                        => LET d == rowDict(headersOf(table[1]), table[r])
                           IN  /\ normalizeHeader(table[1][k]) \in DOMAIN d
                               /\ d[normalizeHeader(table[1][k])]
                                      = IF table[r][k] # "" THEN strip(table[r][k]) ELSE None

(***************************************************************************)
(* Properties of the positional fallback, continued.                       *)
(***************************************************************************)
\* C25: in positional-fallback mode a row of a Dist system with n >= 5
\* trailing values gives its first three values, the eight after them at most
\* and its last two values each to a metric field of its own, and the dict has
\* no other metric field: with n <= 13 every value is in exactly one field,
\* with n > 13 the values from the twelfth to the third from the end are in
\* none.
C25_ValuesToFieldsOfTheirOwn ==
    \A i \in {x \in 1..Len(pdfSystems) : origin[x].mode = "fallback"} :
        LET d == pdfSystems[i]
            v == trailingValues(origin[i].row)
            n == Len(v)
            fields == <<"Cond.", "pH", "Temp">> \o middle_cols
            placed == {k \in 1..n : k <= Len(fields) /\ k <= n - 2}
        IN  (Truthy(d["System Type"]) /\ contains(d["System Type"], "Dist") /\ n >= 5) =>
                /\ \A k \in placed : fields[k] \in DOMAIN d /\ d[fields[k]] = v[k]
                /\ d["Free Chlorine"] = v[n - 1]
                /\ d["Total Chlorine"] = v[n]
                /\ Cardinality(DOMAIN d \ {"#", "System Type", "System Name"})
                       = Cardinality(placed) + 2
                /\ Cardinality(placed) + 2 = IF n <= 13 THEN n ELSE 13

\* a Dist row with six trailing values and a Dist row with fourteen have been
\* taken by position and are in the dict returned, the second with thirteen
\* metric fields
C25_ShortAndLongDistReturned ==
    /\ pcPdf = "returned"
    /\ \E i \in {x \in 1..Len(pdfSystems) : origin[x].mode = "fallback"} :
           /\ Len(trailingValues(origin[i].row)) = 14
           /\ extracted_data.systems[i]["System Type"] = "Dist"
           /\ Cardinality(DOMAIN extracted_data.systems[i]) = 16
    /\ \E i \in {x \in 1..Len(pdfSystems) : origin[x].mode = "fallback"} :
           /\ Len(trailingValues(origin[i].row)) \in 5..13
           /\ extracted_data.systems[i]["System Type"] = "Dist"

\* C25 as stated: a Dist row with n >= 5 trailing values taken by position has
\* n metric fields, and each of its values is the value of one of them.
C25_EveryValueInOneField ==
    \A i \in {x \in 1..Len(pdfSystems) : origin[x].mode = "fallback"} :
        LET d == pdfSystems[i]
            v == trailingValues(origin[i].row)
            metrics == DOMAIN d \ {"#", "System Type", "System Name"}
        IN  (Truthy(d["System Type"]) /\ contains(d["System Type"], "Dist") /\ Len(v) >= 5) =>
                /\ Cardinality(metrics) = Len(v)
                /\ \A k \in 1..Len(v) : \E f \in metrics : d[f] = v[k]

(***************************************************************************)
(* Properties of get_table_from_page                                       *)
(***************************************************************************)
\* C23 (as amended): when get_table_from_page has returned a grid, every word
\* that is not blank is in exactly one cell of row_cells; when a centre of
\* column nearest to the x0 of that cell is nearer than twice the median
\* height, the word is in exactly one cell of the grid, in the row of its
\* group and in such a nearest column, and otherwise it is in no cell of the grid
C23_WordInNearestColumnWithinTolerance ==
    (pPc = "done" /\ pWords # <<>>) =>
        LET columns == pCells.columns
            row_cells == pCells.row_cells
            away(x, c) == IF x * columns[c][2] >= columns[c][1]
                          THEN x * columns[c][2] - columns[c][1]
                          ELSE columns[c][1] - x * columns[c][2]
            nearest(x) == {c \in DOMAIN columns :
                              \A o \in DOMAIN columns :
                                  away(x, c) * columns[o][2] <= away(x, o) * columns[c][2]}
            within(x) == \E c \in nearest(x) :
                             away(x, c) < 2 * pCells.median_height * columns[c][2]
            holds(text, w) == text # None /\ contains(text, w.text)
        IN  \A i \in DOMAIN pWords :
                strip(pWords[i].text) # "" =>
                    \E g \in DOMAIN row_cells : \E k \in DOMAIN row_cells[g] :
                        /\ holds(row_cells[g][k].text, pWords[i])
                        /\ \A h \in DOMAIN row_cells : \A l \in DOMAIN row_cells[h] :
                               holds(row_cells[h][l].text, pWords[i]) => h = g /\ l = k
                        /\ IF within(row_cells[g][k].x)
                           THEN \E c \in nearest(row_cells[g][k].x) :
                                    /\ holds(pOut[g][c], pWords[i])
                                    /\ \A h \in DOMAIN pOut : \A d \in DOMAIN pOut[h] :
                                           holds(pOut[h][d], pWords[i]) => h = g /\ d = c
                           ELSE \A h \in DOMAIN pOut : \A d \in DOMAIN pOut[h] :
                                    ~holds(pOut[h][d], pWords[i])

\* C23 witness: get_table_from_page has returned a grid that holds one word of
\* the page in a cell and leaves another word, not blank, out
C23_OneWordPlacedOneLeftOut ==
    /\ pPc = "done" /\ pWords # <<>>
    /\ \E i, j \in DOMAIN pWords :
           /\ strip(pWords[i].text) # "" /\ strip(pWords[j].text) # ""
           /\ \E g \in DOMAIN pOut : \E c \in DOMAIN pOut[g] :
                  pOut[g][c] # None /\ contains(pOut[g][c], pWords[i].text)
           /\ \A g \in DOMAIN pOut : \A c \in DOMAIN pOut[g] :
                  pOut[g][c] = None \/ ~contains(pOut[g][c], pWords[j].text)

\* C23 (as stated): when get_table_from_page has returned a grid, every word
\* that is not blank is in exactly one cell of the grid; no word is left out
C23_EveryWordInOneCell ==
    (pPc = "done" /\ pWords # <<>>) =>
        \A i \in DOMAIN pWords :
            strip(pWords[i].text) # "" =>
                \E g \in DOMAIN pOut : \E c \in DOMAIN pOut[g] :
                    /\ pOut[g][c] # None /\ contains(pOut[g][c], pWords[i].text)
                    /\ \A h \in DOMAIN pOut : \A d \in DOMAIN pOut[h] :
                           (pOut[h][d] # None /\ contains(pOut[h][d], pWords[i].text))
                               => h = g /\ d = c

\* C27: the grid returned by get_table_from_page lists its rows from the top
\* of the page down: a word in an earlier row has a smaller top than a word
\* in a later row, so that the first row is the topmost row of text
C27_RowsTopToBottom ==
    (pPc = "done" /\ pWords # <<>>) =>
        \A g, h \in DOMAIN pCells.row_cells :
            g < h =>
                \A i, j \in DOMAIN pWords :
                    (/\ \E k \in DOMAIN pCells.row_cells[g] :
                            contains(pCells.row_cells[g][k].text, pWords[i].text)
                     /\ \E l \in DOMAIN pCells.row_cells[h] :
                            contains(pCells.row_cells[h][l].text, pWords[j].text))
                        => pWords[i].top < pWords[j].top

(***************************************************************************)
(* Properties of mssql_exporter.py, continued                              *)
(***************************************************************************)
\* C28: a JSON file that is skipped for a missing or empty facility, or that
\* json.load fails on, has no row in documents, and with it no row in data
\* under a row of documents of its name
C28_SkippedFileLeavesNoRow ==
    \A i \in 1..Len(jsonDir) :
        (\/ ~jsonDir[i].loads
         \/ jsonDir[i].facility = None
         \/ strip(jsonDir[i].facility) = "")
            => /\ \A d \in 1..Len(documents) : documents[d].filename # jsonDir[i].name
               /\ \A r \in 1..Len(dataTable) :
                      \A d \in 1..Len(documents) :
                          dataTable[r].document_id = documents[d].id
                              => documents[d].filename # jsonDir[i].name

\* C29: once a file of measurements with a facility has been exported (it has
\* a row in documents), every measurement of it whose name is not blank and
\* does not contain "Water Samples" has a row in data under that document
C29_EveryMeasurementExported ==
    \A i \in 1..Len(jsonDir) :
        (/\ jsonDir[i].list = "measurements"
         /\ jsonDir[i].loads
         /\ jsonDir[i].facility # None
         /\ strip(jsonDir[i].facility) # "")
            => \A d \in 1..Len(documents) :
                   documents[d].filename = jsonDir[i].name
                       => \A j \in 1..Len(jsonDir[i].entries) :
                              (/\ strip(jsonDir[i].entries[j]["distribution"]) # ""
                               /\ ~contains(jsonDir[i].entries[j]["distribution"],
                                            "Water Samples"))
                                  => \E r \in 1..Len(dataTable) :
                                         /\ dataTable[r].document_id = documents[d].id
                                         /\ dataTable[r].system_name
                                                = jsonDir[i].entries[j]["distribution"]
====
